---- MODULE Spec2Model ----
(***************************************************************************)
(* Model of the VK moderation bot: the relational store (database.py), the *)
(* access model and the message/command dispatcher (bot.py) and the        *)
(* command handlers (commands.py).                                         *)
(*                                                                         *)
(* Time is the integer clock `now` (time.time() truncated to seconds).     *)
(* A conversation is a group chat: peer k stands for peer_id 2000000000+k. *)
(* The membership service's answer to "who owns conversation p" is the     *)
(* variable owner[p] (0 = no owner reported, which is also what            *)
(* get_conversation_owner returns when the remote call fails).             *)
(***************************************************************************)
EXTENDS Integers, Sequences, FiniteSets, TLC

\* ---------------------------------------------------------------- bounds
NumUsers == 2
NumPeers == 2
MaxTime == 1
MaxPending == 1

Users == 1..NumUsers
Peers == 1..NumPeers
NoPeer == 0

\* the configured COMMAND_COOLDOWN, in seconds, and the clock's last second;
\* the longer pair is for runs in which a cooldown window spans several seconds
Cooldown == 1
LongCooldown == 2
MaxTimeLong == 2

\* ------------------------------------------------------ program constants
WARN_LIMIT == 3
MASSKICK_LIMIT == 20

Roles == {"user", "moderator", "senior_moderator", "admin", "creator"}
NoRole == "none"

\* bot.py ROLE_HIERARCHY with the .get(role, 0) default
ROLE_HIERARCHY(role) ==
    CASE role = "user" -> 1
      [] role = "moderator" -> 2
      [] role = "senior_moderator" -> 3
      [] role = "admin" -> 4
      [] role = "creator" -> 5
      [] OTHER -> 0

\* utils.py ROLE_HIERARCHY (the table commands.py imports), .get(role, 0)
ROLE_HIERARCHY_utils(role) ==
    CASE role = "user" -> 0
      [] role = "moderator" -> 1
      [] role = "senior_moderator" -> 2
      [] role = "admin" -> 3
      [] role = "creator" -> 4
      [] OTHER -> 0

\* --------------------------------------------------------------- state
VARIABLES
    users,               \* table users: user_id -> row (present flag, role, warns, mute_until)
    warn_rows,           \* table warns: user_id -> number of rows stored for the user
    bans,                \* table bans: the set of its rows (user_id, reason, ban_timestamp)
    conversation_roles,  \* table conversation_roles: (user_id, peer_id) -> role or NoRole
    owner,               \* membership service: peer_id -> owner's id, 0 when none is reported
    quiet_mode,          \* VkBot.quiet_mode
    last_command_time,   \* VkBot.last_command_time: user_id -> time, -1 when absent
    log_peer_id,         \* VkBot.log_peer_id is configured
    command_cooldown,    \* VkBot.command_cooldown
    now,                 \* the clock
    pending,             \* tasks submitted to the executor and not yet run
    last,                \* the step just taken
    out,                 \* external calls and store writes of the step just taken, in order
    warn_history,        \* per user: add_warn calls, remove_warn calls, and how many of
                         \* the latter found no warning to remove
    submitted_rights,    \* per pending task: did has_rights hold for it when it was submitted
    workers,             \* pool workers inside cmd_warn: position, task, counter read back
    db_lock,             \* database.db_lock: the worker holding it, 0 when free
    warn_seen,           \* per user: the counters add_warn returned, in order
    delete_queue,        \* VkBot.delete_queue: (peer_id, message_id) pairs waiting for the drain
    longpoll             \* the polling thread: where it is, how often listen() has raised,
                         \* the events waiting at the server, the event last given to the pool

vars == <<users, warn_rows, bans, conversation_roles, owner, quiet_mode,
          last_command_time, log_peer_id, command_cooldown, now, pending, last, out,
          warn_history, submitted_rights, workers, db_lock, warn_seen, delete_queue, longpoll>>

worker_vars == <<workers, db_lock, warn_seen, delete_queue, longpoll>>

NoUser == [present |-> FALSE, role |-> "user", warns |-> 0, mute_until |-> 0]
NewUser == [present |-> TRUE, role |-> "user", warns |-> 0, mute_until |-> 0]
NoBan == [present |-> FALSE, reason |-> "", ban_timestamp |-> 0]

\* The part of the state a command handler reads and writes.
Store == [users |-> users, warn_rows |-> warn_rows, bans |-> bans,
          conversation_roles |-> conversation_roles, quiet_mode |-> quiet_mode,
          log_peer_id |-> log_peer_id]

\* One entry of `out`.
Ev(e, a, u, ok) == [e |-> e, a |-> a, u |-> u, ok |-> ok]
Send(a) == Ev("send", a, 0, TRUE)

\* ------------------------------------------------------------ database.py
get_user(us, user_id) == us[user_id]

add_user(us, user_id) ==
    IF us[user_id].present THEN us ELSE [us EXCEPT ![user_id] = NewUser]

\* variant of get_role that returns the higher-ranked of the two stored roles
get_role_max(us, cr, user_id, peer_id) ==
    LET g == IF us[user_id].present THEN us[user_id].role ELSE "user" IN
    IF peer_id # NoPeer /\ cr[user_id][peer_id] # NoRole
       /\ ROLE_HIERARCHY(cr[user_id][peer_id]) >= ROLE_HIERARCHY(g)
    THEN cr[user_id][peer_id]
    ELSE g

get_role(us, cr, user_id, peer_id) ==
    IF peer_id # NoPeer /\ cr[user_id][peer_id] # NoRole
    THEN cr[user_id][peer_id]
    ELSE IF us[user_id].present THEN us[user_id].role ELSE "user"

set_role(cr, user_id, role, peer_id) ==
    [cr EXCEPT ![user_id][peer_id] = role]

get_mute(us, user_id) == IF us[user_id].present THEN us[user_id].mute_until ELSE 0

\* get_ban: fetchone() of the rows stored for the user, None (NoBan) without one
get_ban(bs, user_id) ==
    IF \E r \in bs : r.user_id = user_id
    THEN LET r == CHOOSE r \in bs : r.user_id = user_id
         IN [present |-> TRUE, reason |-> r.reason, ban_timestamp |-> r.ban_timestamp]
    ELSE NoBan


\* add_warn: one more row in warns, users.warns + 1 (the row exists: every
\* caller runs add_user first); the new counter is what the caller reads back.
\* variant of add_warn that raises the counter without storing a row
add_warn_counter_only(s, user_id) ==
    [s EXCEPT !.users[user_id].warns = @ + 1]

add_warn(s, user_id) ==
    [s EXCEPT !.warn_rows[user_id] = @ + 1,
              !.users[user_id].warns = @ + 1]

\* variant of remove_warn that decrements the counter without the floor
remove_warn_unfloored(s, user_id) ==
    [s EXCEPT !.warn_rows[user_id] = IF @ > 0 THEN @ - 1 ELSE @,
              !.users[user_id].warns = @ - 1]

\* remove_warn: without a stored row for the user it returns 0 and writes
\* nothing; otherwise it deletes the newest row and sets warns = MAX(0, warns - 1).
remove_warn(s, user_id) ==
    IF s.warn_rows[user_id] = 0
    THEN s
    ELSE [s EXCEPT !.warn_rows[user_id] = @ - 1,
                   !.users[user_id].warns =
                       IF s.users[user_id].present /\ @ > 0 THEN @ - 1 ELSE @]

remove_warn_result(s, user_id) ==
    IF s.warn_rows[user_id] = 0 \/ ~s.users[user_id].present
    THEN 0
    ELSE remove_warn(s, user_id).users[user_id].warns

get_warns(us, user_id) == IF us[user_id].present THEN us[user_id].warns ELSE 0

\* variant of set_mute that stores the duration instead of the end time
set_mute_relative(us, user_id, duration, t) ==
    IF us[user_id].present
    THEN [us EXCEPT ![user_id].mute_until = duration]
    ELSE us

\* set_mute: UPDATE users SET mute_until = now + duration WHERE user_id = ?
set_mute(us, user_id, duration, t) ==
    IF us[user_id].present
    THEN [us EXCEPT ![user_id].mute_until = t + duration]
    ELSE us

\* remove_mute: UPDATE ... SET mute_until = 0; success is rowcount > 0
remove_mute(us, user_id) ==
    IF us[user_id].present THEN [us EXCEPT ![user_id].mute_until = 0] ELSE us

remove_mute_result(us, user_id) == us[user_id].present

BanRow(user_id, reason, t) == [user_id |-> user_id, reason |-> reason, ban_timestamp |-> t]

\* variant of ban_user that adds a row without replacing the user's old one
ban_user_insert(bs, user_id, reason, t) ==
    bs \cup {BanRow(user_id, reason, t)}

\* ban_user: INSERT OR REPLACE INTO bans, user_id being the primary key:
\* the row stored for the user, if any, gives way to the new one
ban_user(bs, user_id, reason, t) ==
    {r \in bs : r.user_id # user_id} \cup {BanRow(user_id, reason, t)}

\* unban_user: DELETE FROM bans WHERE user_id = ?; success is rowcount > 0
unban_user(bs, user_id) == {r \in bs : r.user_id # user_id}

\* variant of unban_user's result that reports success whatever was deleted
unban_user_result_always(bs, user_id) == TRUE

unban_user_result(bs, user_id) == \E r \in bs : r.user_id = user_id

\* get_staff(peer_id): the conversation's rows whose role is not 'user'
get_staff(cr, peer_id) ==
    {u \in Users : cr[u][peer_id] # NoRole /\ cr[u][peer_id] # "user"}

\* ----------------------------------------------------------------- bot.py
get_conversation_owner(peer_id) == owner[peer_id]

is_conversation_owner(peer_id, user_id) == get_conversation_owner(peer_id) = user_id

\* variant of check_access whose comparison is strict
check_access_strict(us, cr, user_id, required_role, peer_id) ==
    IF peer_id # NoPeer
    THEN ROLE_HIERARCHY(get_role(us, cr, user_id, peer_id)) > ROLE_HIERARCHY(required_role)
    ELSE IF ~get_user(us, user_id).present
         THEN FALSE
         ELSE ROLE_HIERARCHY(get_user(us, user_id).role) > ROLE_HIERARCHY(required_role)

check_access(us, cr, user_id, required_role, peer_id) ==
    IF peer_id # NoPeer
    THEN ROLE_HIERARCHY(get_role(us, cr, user_id, peer_id)) >= ROLE_HIERARCHY(required_role)
    ELSE IF ~get_user(us, user_id).present
         THEN FALSE
         ELSE ROLE_HIERARCHY(get_user(us, user_id).role) >= ROLE_HIERARCHY(required_role)

has_rights(us, cr, peer_id, user_id, required_role) ==
    is_conversation_owner(peer_id, user_id)
        \/ check_access(us, cr, user_id, required_role, peer_id)

is_muted(us, user_id, t) == get_mute(us, user_id) > t

is_banned(bs, user_id) == get_ban(bs, user_id).present


\* ------------------------------------------------------ command arguments
\* The argument string is the sequence of its space-separated words.  A word
\* is a decimal number ("id"), bracketed mention markup [idN|label]
\* ("mention"), digits followed by a letter such as 2s or 1m ("dur", the
\* letter in `unit`), a profile URL with a numeric id vk.com/idN ("url_id"),
\* a profile URL with a screen name ("url_name"), an @handle ("at"), or any
\* other text ("word").  A screen name or handle comes with what the profile
\* lookup answers for it in `unit`: "found" (the user `v`), "empty" or "raises".
Tok(k, v, unit) == [k |-> k, v |-> v, unit |-> unit]
IdTok(n) == Tok("id", n, "")
MentionTok(n) == Tok("mention", n, "")
WordTok == Tok("word", 0, "")
DurTok(n, unit) == Tok("dur", n, unit)
UrlIdTok(n) == Tok("url_id", n, "")
UrlNameTok(n, answer) == Tok("url_name", n, answer)
AtTok(n, answer) == Tok("at", n, answer)

\* str.lower() of what follows the digits of a duration word
lower(text) ==
    CASE text = "S" -> "s"
      [] text = "M" -> "m"
      [] text = "H" -> "h"
      [] text = "D" -> "d"
      [] text = "Hm" -> "hm"
      [] OTHER -> text

\* variant of parse_time that takes the digits as seconds whatever follows them
parse_time_unit_ignored(tok) ==
    IF tok.k # "dur" THEN -1 ELSE tok.v

\* utils.parse_time: ^(\d+)([smhd])$ on the lower-cased word -> seconds;
\* -1 stands for ValueError
parse_time(tok) ==
    IF tok.k # "dur" THEN -1
    ELSE LET unit == lower(tok.unit) IN
         CASE unit = "s" -> tok.v
           [] unit = "m" -> tok.v * 60
           [] unit = "h" -> tok.v * 3600
           [] unit = "d" -> tok.v * 86400
           [] OTHER -> -1

\* vk.users.get(user_ids=screen_name) inside its try block: the id found, or
\* 0 when the answer is empty or the call raises (logged, execution goes on)
users_get(tok) == IF tok.unit = "found" THEN tok.v ELSE 0

\* re.search of the mention markup, then of @(\w+), over the whole text
RECURSIVE FirstMention(_)
FirstMention(toks) ==
    IF toks = <<>> THEN 0
    ELSE IF Head(toks).k = "mention" THEN Head(toks).v
    ELSE FirstMention(Tail(toks))

RECURSIVE FirstAt(_)
FirstAt(toks) ==
    IF toks = <<>> THEN 0
    ELSE IF Head(toks).k = "at" THEN users_get(Head(toks))
    ELSE FirstAt(Tail(toks))

HasMention(toks) == \E i \in 1..Len(toks) : toks[i].k = "mention"

\* variant of extract_user_id_from_mention that looks at the first word only
extract_user_id_from_mention_first_only(mention) ==
    IF mention = <<>> THEN 0
    ELSE IF mention[1].k \in {"id", "mention", "url_id"} THEN mention[1].v
    ELSE IF mention[1].k \in {"url_name", "at"} THEN users_get(mention[1])
    ELSE 0

\* extract_user_id_from_mention on the words of `mention`: the first word
\* decides when it is a number, mention markup, a profile URL or an @handle
\* that resolves; otherwise, when there are further words, the first mention
\* markup anywhere in the text, then the first @handle anywhere; 0 = None.
extract_user_id_from_mention(mention) ==
    IF mention = <<>> THEN 0
    ELSE IF mention[1].k \in {"id", "mention", "url_id"} THEN mention[1].v
    ELSE IF mention[1].k \in {"url_name", "at"} /\ users_get(mention[1]) # 0
    THEN users_get(mention[1])
    ELSE IF Len(mention) > 1
    THEN IF HasMention(mention) THEN FirstMention(mention) ELSE FirstAt(mention)
    ELSE 0

\* the handlers that try the first word and then the whole argument string
ExtractFirstThenAll(args) ==
    LET t == extract_user_id_from_mention(<<args[1]>>)
    IN IF t # 0 THEN t ELSE extract_user_id_from_mention(args)

\* ------------------------------------------------------------ commands.py
\* register_commands: the required role of each modelled command
Commands == {"help", "start", "kick", "warn", "unwarn", "mute", "unmute", "delete",
             "ban", "unban", "addmoder", "removerole", "masskick", "quiet",
             "addsenmoder", "addadmin", "removeadmin"}

\* variant of the registry in which ban asks for moderator only
required_role_ban_moderator(name) ==
    CASE name \in {"help", "start"} -> "user"
      [] name \in {"kick", "warn", "unwarn", "mute", "unmute", "delete", "ban"} -> "moderator"
      [] name \in {"unban", "addmoder", "removerole", "masskick"} -> "senior_moderator"
      [] name \in {"quiet", "addsenmoder"} -> "admin"
      [] name \in {"addadmin", "removeadmin"} -> "creator"

required_role(name) ==
    CASE name \in {"help", "start"} -> "user"
      [] name \in {"kick", "warn", "unwarn", "mute", "unmute", "delete"} -> "moderator"
      [] name \in {"ban", "unban", "addmoder", "removerole", "masskick"} -> "senior_moderator"
      [] name \in {"quiet", "addsenmoder"} -> "admin"
      [] name \in {"addadmin", "removeadmin"} -> "creator"

has_command(name) == name \in Commands

\* A handler's result: the store it leaves and the calls it made.
R(s, o) == [s |-> s, out |-> o]

\* send_log_message returns False without sending when no log conversation
\* is configured; otherwise the lookups and the send may fail or succeed.
LogOutcomes(s) == IF s.log_peer_id THEN BOOLEAN ELSE {FALSE}
Log(action, target, sent) == Ev("log", action, target, sent)
Kick(target, ok) == Ev("kick", "", target, ok)
Db(op, target) == Ev("db", op, target, TRUE)

\* ------------------------------------------------- bot.py: delete_message
\* peer_id > 2000000000: the conversations 1..NumPeers are group
\* conversations, DirectPeer is a conversation with one user
DirectPeer == NumPeers + 1
is_group(peer_id) == peer_id \in Peers

\* the three call shapes of messages.delete tried for a group conversation,
\* and the one used for a direct conversation
GroupDeleteShapes == <<"cmids", "message_ids_list", "message_ids_str">>
DirectDeleteShape == "message_ids"

\* what the platform answers to each call shape: TRUE = the call returns,
\* FALSE = it raises
DeleteApis ==
    [{GroupDeleteShapes[i] : i \in 1..Len(GroupDeleteShapes)} \cup {DirectDeleteShape}
        -> BOOLEAN]

Delete(shape, message, ok) == Ev("delete", shape, message, ok)
Deleted(calls, ok) == [calls |-> calls, ok |-> ok]

\* variant of delete_message that goes on to the next shape after a success
delete_message_try_all(peer_id, message, api) ==
    IF is_group(peer_id)
    THEN Deleted(<<Delete("cmids", message, api["cmids"]),
                   Delete("message_ids_list", message, api["message_ids_list"]),
                   Delete("message_ids_str", message, api["message_ids_str"])>>,
                 api["cmids"] \/ api["message_ids_list"] \/ api["message_ids_str"])
    ELSE Deleted(<<Delete(DirectDeleteShape, message, api[DirectDeleteShape])>>,
                 api[DirectDeleteShape])

\* delete_message: the calls it makes, in order, and what it returns
delete_message(peer_id, message, api) ==
    IF is_group(peer_id)
    THEN IF api["cmids"]
         THEN Deleted(<<Delete("cmids", message, TRUE)>>, TRUE)
         ELSE IF api["message_ids_list"]
         THEN Deleted(<<Delete("cmids", message, FALSE),
                        Delete("message_ids_list", message, TRUE)>>, TRUE)
         ELSE Deleted(<<Delete("cmids", message, FALSE),
                        Delete("message_ids_list", message, FALSE),
                        Delete("message_ids_str", message, api["message_ids_str"])>>,
                      api["message_ids_str"])
    ELSE Deleted(<<Delete(DirectDeleteShape, message, api[DirectDeleteShape])>>,
                 api[DirectDeleteShape])

\* "Check if target is staff member": both checks are made without peer_id
StaffProtected(s, user_id, target_id) ==
    check_access(s.users, s.conversation_roles, target_id, "moderator", NoPeer)
        /\ ~check_access(s.users, s.conversation_roles, user_id, "admin", NoPeer)

cmd_help(s, peer_id, user_id, args) == {R(s, <<Send("help")>>)}

\* variant of cmd_start that stores the creator row for every invoker it activates for
cmd_start_any_invoker(s, peer_id, user_id, args) ==
    LET is_owner == is_conversation_owner(peer_id, user_id) IN
    IF get_staff(s.conversation_roles, peer_id) # {}
    THEN {R(s, <<Send("already_activated")>>)}
    ELSE IF is_owner \/ check_access(s.users, s.conversation_roles, user_id, "creator", NoPeer)
    THEN {R([s EXCEPT !.conversation_roles = set_role(@, user_id, "creator", peer_id)],
            <<Db("set_role", user_id), Send("activated_owner"), Log("start", 0, l)>>)
          : l \in LogOutcomes(s)}
    ELSE {R(s, <<Send("activation_failed")>>)}

cmd_start(s, peer_id, user_id, args) ==
    LET is_owner == is_conversation_owner(peer_id, user_id) IN
    IF get_staff(s.conversation_roles, peer_id) # {}
    THEN {R(s, <<Send("already_activated")>>)}
    ELSE IF is_owner \/ check_access(s.users, s.conversation_roles, user_id, "creator", NoPeer)
    THEN IF is_owner
         THEN {R([s EXCEPT !.conversation_roles = set_role(@, user_id, "creator", peer_id)],
                 <<Db("set_role", user_id), Send("activated_owner"), Log("start", 0, l)>>)
               : l \in LogOutcomes(s)}
         ELSE {R(s, <<Send("activated"), Log("start", 0, l)>>) : l \in LogOutcomes(s)}
    ELSE {R(s, <<Send("activation_failed")>>)}

cmd_kick(s, peer_id, user_id, args) ==
    IF args = <<>> THEN {R(s, <<Send("usage")>>)}
    ELSE LET target_id == ExtractFirstThenAll(args) IN
    IF target_id = 0 THEN {R(s, <<Send("no_user")>>)}
    ELSE IF StaffProtected(s, user_id, target_id)
    THEN {R(s, <<Send("staff_protected")>>)}
    ELSE {R(s, <<Kick(target_id, TRUE), Send("kicked"), Log("kick", target_id, l)>>)
          : l \in LogOutcomes(s)}
         \cup {R(s, <<Kick(target_id, FALSE), Send("kick_failed")>>)}

\* the tail of cmd_warn taken when the new counter is >= 3
AutoBan(s, target_id, t) ==
    [s EXCEPT !.bans = ban_user(@, target_id, "auto", t)]

\* variant of AutoBanEvents that removes the user before the ban is recorded
AutoBanEvents_kick_first(target_id, k, l2) ==
    <<Kick(target_id, k), Db("ban_user", target_id), Send("autobanned"),
      Log("ban", target_id, l2)>>

\* ... and the calls it makes, in order
AutoBanEvents(target_id, k, l2) ==
    <<Db("ban_user", target_id), Send("autobanned"), Kick(target_id, k),
      Log("ban", target_id, l2)>>

cmd_warn(s, peer_id, user_id, args, t) ==
    IF Len(args) < 2 THEN {R(s, <<Send("usage")>>)}
    ELSE LET target_id == extract_user_id_from_mention(<<args[1]>>) IN
    IF target_id = 0 THEN {R(s, <<Send("no_user")>>)}
    ELSE IF StaffProtected(s, user_id, target_id)
    THEN {R(s, <<Send("staff_protected")>>)}
    ELSE LET s1 == [s EXCEPT !.users = add_user(@, target_id)]
             s2 == add_warn(s1, target_id)
             warn_count == s2.users[target_id].warns
         IN IF warn_count >= WARN_LIMIT
            THEN {R(AutoBan(s2, target_id, t),
                    <<Db("add_warn", target_id), Send("warned"), Log("warn", target_id, l1)>>
                        \o AutoBanEvents(target_id, k, l2))
                  : l1 \in LogOutcomes(s), k \in BOOLEAN, l2 \in LogOutcomes(s)}
            ELSE {R(s2, <<Db("add_warn", target_id), Send("warned"), Log("warn", target_id, l1)>>)
                  : l1 \in LogOutcomes(s)}

\* variant of cmd_unwarn that also deletes the target's ban row
cmd_unwarn_lifts_ban(s, peer_id, user_id, args) ==
    IF args = <<>> THEN {R(s, <<Send("usage")>>)}
    ELSE LET target_id == extract_user_id_from_mention(args) IN
    IF target_id = 0 THEN {R(s, <<Send("no_user")>>)}
    ELSE {R([remove_warn(s, target_id) EXCEPT !.bans = unban_user(@, target_id)],
            <<Db("remove_warn", target_id), Send("unwarned"), Log("unwarn", target_id, l)>>)
          : l \in LogOutcomes(s)}

cmd_unwarn(s, peer_id, user_id, args) ==
    IF args = <<>> THEN {R(s, <<Send("usage")>>)}
    ELSE LET target_id == extract_user_id_from_mention(args) IN
    IF target_id = 0 THEN {R(s, <<Send("no_user")>>)}
    ELSE {R(remove_warn(s, target_id),
            <<Db("remove_warn", target_id), Send("unwarned"), Log("unwarn", target_id, l)>>)
          : l \in LogOutcomes(s)}

cmd_mute(s, peer_id, user_id, args, t) ==
    IF Len(args) < 3 THEN {R(s, <<Send("usage")>>)}
    ELSE LET target_id == extract_user_id_from_mention(<<args[1]>>) IN
    IF target_id = 0 THEN {R(s, <<Send("no_user")>>)}
    ELSE IF StaffProtected(s, user_id, target_id)
    THEN {R(s, <<Send("staff_protected")>>)}
    ELSE LET duration == parse_time(args[2]) IN
    IF duration < 0 THEN {R(s, <<Send("bad_time")>>)}
    ELSE LET us1 == add_user(s.users, target_id) IN
         {R([s EXCEPT !.users = set_mute(us1, target_id, duration, t)],
            <<Db("set_mute", target_id), Send("muted"), Log("mute", target_id, l)>>)
          : l \in LogOutcomes(s)}

cmd_unmute(s, peer_id, user_id, args) ==
    IF args = <<>> THEN {R(s, <<Send("usage")>>)}
    ELSE LET target_id == ExtractFirstThenAll(args) IN
    IF target_id = 0 THEN {R(s, <<Send("no_user")>>)}
    ELSE IF remove_mute_result(s.users, target_id)
    THEN {R([s EXCEPT !.users = remove_mute(@, target_id)],
            <<Db("remove_mute", target_id), Send("unmuted"), Log("unmute", target_id, l)>>)
          : l \in LogOutcomes(s)}
    ELSE {R(s, <<Send("not_muted")>>)}

\* variant of cmd_ban in which a failed audit entry ends the handler early
cmd_ban_audit_required(s, peer_id, user_id, args, t) ==
    IF Len(args) < 2 THEN {R(s, <<Send("usage")>>)}
    ELSE LET target_id == extract_user_id_from_mention(<<args[1]>>) IN
    IF target_id = 0 THEN {R(s, <<Send("no_user")>>)}
    ELSE IF StaffProtected(s, user_id, target_id)
    THEN {R(s, <<Send("staff_protected")>>)}
    ELSE {R([s EXCEPT !.users = add_user(@, target_id),
                      !.bans = ban_user(@, target_id, "manual", t)],
            <<Db("ban_user", target_id), Send("banned"), Log("ban", target_id, l)>>
                \o (IF l THEN <<Kick(target_id, k)>> ELSE <<>>))
          : l \in LogOutcomes(s), k \in BOOLEAN}

cmd_ban(s, peer_id, user_id, args, t) ==
    IF Len(args) < 2 THEN {R(s, <<Send("usage")>>)}
    ELSE LET target_id == extract_user_id_from_mention(<<args[1]>>) IN
    IF target_id = 0 THEN {R(s, <<Send("no_user")>>)}
    ELSE IF StaffProtected(s, user_id, target_id)
    THEN {R(s, <<Send("staff_protected")>>)}
    ELSE {R([s EXCEPT !.users = add_user(@, target_id),
                      !.bans = ban_user(@, target_id, "manual", t)],
            <<Db("ban_user", target_id), Send("banned"), Log("ban", target_id, l),
              Kick(target_id, k)>>)
          : l \in LogOutcomes(s), k \in BOOLEAN}

cmd_unban(s, peer_id, user_id, args) ==
    IF args = <<>> THEN {R(s, <<Send("usage")>>)}
    ELSE LET target_id == ExtractFirstThenAll(args) IN
    IF target_id = 0 THEN {R(s, <<Send("no_user")>>)}
    ELSE IF unban_user_result(s.bans, target_id)
    THEN {R([s EXCEPT !.bans = unban_user(@, target_id)],
            <<Db("unban_user", target_id), Send("unbanned"), Log("unban", target_id, l)>>)
          : l \in LogOutcomes(s)}
    ELSE {R(s, <<Send("not_banned")>>)}


\* addmoder / addsenmoder / addadmin differ only in the role they store
cmd_grant(s, peer_id, user_id, args, role) ==
    IF args = <<>> THEN {R(s, <<Send("usage")>>)}
    ELSE LET target_id == ExtractFirstThenAll(args) IN
    IF target_id = 0 THEN {R(s, <<Send("no_user")>>)}
    ELSE {R([s EXCEPT !.users = add_user(@, target_id),
                      !.conversation_roles = set_role(@, target_id, role, peer_id)],
            <<Db("set_role", target_id), Send("role_set"), Log("set_role", target_id, l)>>)
          : l \in LogOutcomes(s)}

cmd_addmoder(s, peer_id, user_id, args) == cmd_grant(s, peer_id, user_id, args, "moderator")
cmd_addsenmoder(s, peer_id, user_id, args) == cmd_grant(s, peer_id, user_id, args, "senior_moderator")
cmd_addadmin(s, peer_id, user_id, args) == cmd_grant(s, peer_id, user_id, args, "admin")

\* variant of cmd_removerole that refuses only a target of higher rank
cmd_removerole_lateral(s, peer_id, user_id, args) ==
    IF args = <<>> THEN {R(s, <<Send("usage")>>)}
    ELSE LET target_id == ExtractFirstThenAll(args) IN
    IF target_id = 0 THEN {R(s, <<Send("no_user")>>)}
    ELSE LET target_role == get_role(s.users, s.conversation_roles, target_id, peer_id)
             initiator_role == get_role(s.users, s.conversation_roles, user_id, peer_id)
         IN
    IF target_role = "user" THEN {R(s, <<Send("no_role")>>)}
    ELSE IF ROLE_HIERARCHY_utils(target_role) > ROLE_HIERARCHY_utils(initiator_role)
    THEN {R(s, <<Send("rank_refused")>>)}
    ELSE {R([s EXCEPT !.conversation_roles = set_role(@, target_id, "user", peer_id)],
            <<Db("set_role", target_id), Send("role_removed"), Log("remove_role", target_id, l)>>)
          : l \in LogOutcomes(s)}

cmd_removerole(s, peer_id, user_id, args) ==
    IF args = <<>> THEN {R(s, <<Send("usage")>>)}
    ELSE LET target_id == ExtractFirstThenAll(args) IN
    IF target_id = 0 THEN {R(s, <<Send("no_user")>>)}
    ELSE LET target_role == get_role(s.users, s.conversation_roles, target_id, peer_id)
             initiator_role == get_role(s.users, s.conversation_roles, user_id, peer_id)
         IN
    IF target_role = "user" THEN {R(s, <<Send("no_role")>>)}
    ELSE IF ROLE_HIERARCHY_utils(target_role) >= ROLE_HIERARCHY_utils(initiator_role)
    THEN {R(s, <<Send("rank_refused")>>)}
    ELSE {R([s EXCEPT !.conversation_roles = set_role(@, target_id, "user", peer_id)],
            <<Db("set_role", target_id), Send("role_removed"), Log("remove_role", target_id, l)>>)
          : l \in LogOutcomes(s)}

\* variant of cmd_removeadmin that accepts every target ranked admin or above
cmd_removeadmin_at_least(s, peer_id, user_id, args) ==
    IF args = <<>> THEN {R(s, <<Send("usage")>>)}
    ELSE LET target_id == ExtractFirstThenAll(args) IN
    IF target_id = 0 THEN {R(s, <<Send("no_user")>>)}
    ELSE IF ROLE_HIERARCHY_utils(get_role(s.users, s.conversation_roles, target_id, peer_id))
                < ROLE_HIERARCHY_utils("admin")
    THEN {R(s, <<Send("not_admin")>>)}
    ELSE {R([s EXCEPT !.conversation_roles = set_role(@, target_id, "user", peer_id)],
            <<Db("set_role", target_id), Send("admin_removed"), Log("remove_role", target_id, l)>>)
          : l \in LogOutcomes(s)}

cmd_removeadmin(s, peer_id, user_id, args) ==
    IF args = <<>> THEN {R(s, <<Send("usage")>>)}
    ELSE LET target_id == ExtractFirstThenAll(args) IN
    IF target_id = 0 THEN {R(s, <<Send("no_user")>>)}
    ELSE IF get_role(s.users, s.conversation_roles, target_id, peer_id) # "admin"
    THEN {R(s, <<Send("not_admin")>>)}
    ELSE {R([s EXCEPT !.conversation_roles = set_role(@, target_id, "user", peer_id)],
            <<Db("set_role", target_id), Send("admin_removed"), Log("remove_role", target_id, l)>>)
          : l \in LogOutcomes(s)}

\* int(id_str) succeeds on the decimal words only
RECURSIVE MassKickIds(_)
MassKickIds(args) ==
    IF args = <<>> THEN <<>>
    ELSE IF Head(args).k = "id" THEN <<Head(args).v>> \o MassKickIds(Tail(args))
    ELSE MassKickIds(Tail(args))

\* the loop of cmd_masskick: every way the removals can turn out
RECURSIVE MassKickRuns(_, _, _)
MassKickRuns(s, user_id, target_ids) ==
    IF target_ids = <<>> THEN {<<>>}
    ELSE LET rest == MassKickRuns(s, user_id, Tail(target_ids)) IN
         IF StaffProtected(s, user_id, Head(target_ids))
         THEN rest
         ELSE {<<Kick(Head(target_ids), k)>> \o r : k \in BOOLEAN, r \in rest}


cmd_masskick(s, peer_id, user_id, args) ==
    IF args = <<>> THEN {R(s, <<Send("usage")>>)}
    ELSE LET ids == MassKickIds(args) IN
    IF ids = <<>> THEN {R(s, <<Send("no_ids")>>)}
    ELSE LET target_ids == SubSeq(ids, 1, IF Len(ids) < MASSKICK_LIMIT THEN Len(ids) ELSE MASSKICK_LIMIT)
         IN {R(s, <<Send("masskick_begin")>> \o run
                  \o <<Ev("send", "masskick_done",
                          Cardinality({i \in 1..Len(run) : run[i].ok}), TRUE),
                       Log("masskick", 0, l)>>)
             : run \in MassKickRuns(s, user_id, target_ids), l \in LogOutcomes(s)}

\* cmd_delete: int(args.strip()) succeeds on a single decimal word
cmd_delete(s, peer_id, user_id, args) ==
    IF args = <<>> THEN {R(s, <<Send("usage")>>)}
    ELSE IF Len(args) # 1 \/ args[1].k # "id" THEN {R(s, <<Send("bad_message_id")>>)}
    ELSE {R(s, delete_message(peer_id, args[1].v, api).calls
                   \o <<Send(IF delete_message(peer_id, args[1].v, api).ok
                             THEN "deleted" ELSE "delete_failed")>>)
          : api \in DeleteApis}

cmd_quiet(s, peer_id, user_id, args) ==
    IF ~check_access(s.users, s.conversation_roles, user_id, "admin", NoPeer)
       /\ ~check_access(s.users, s.conversation_roles, user_id, "creator", NoPeer)
       /\ ~is_conversation_owner(peer_id, user_id)
    THEN {R(s, <<Send("no_rights")>>)}
    ELSE {R([s EXCEPT !.quiet_mode = ~@],
            <<Send(IF s.quiet_mode THEN "quiet_off" ELSE "quiet_on"), Log("quiet", 0, l)>>)
          : l \in LogOutcomes(s)}

Handler(name, s, peer_id, user_id, args, t) ==
    CASE name = "help" -> cmd_help(s, peer_id, user_id, args)
      [] name = "start" -> cmd_start(s, peer_id, user_id, args)
      [] name = "kick" -> cmd_kick(s, peer_id, user_id, args)
      [] name = "warn" -> cmd_warn(s, peer_id, user_id, args, t)
      [] name = "unwarn" -> cmd_unwarn(s, peer_id, user_id, args)
      [] name = "mute" -> cmd_mute(s, peer_id, user_id, args, t)
      [] name = "unmute" -> cmd_unmute(s, peer_id, user_id, args)
      [] name = "ban" -> cmd_ban(s, peer_id, user_id, args, t)
      [] name = "unban" -> cmd_unban(s, peer_id, user_id, args)
      [] name = "addmoder" -> cmd_addmoder(s, peer_id, user_id, args)
      [] name = "addsenmoder" -> cmd_addsenmoder(s, peer_id, user_id, args)
      [] name = "addadmin" -> cmd_addadmin(s, peer_id, user_id, args)
      [] name = "removerole" -> cmd_removerole(s, peer_id, user_id, args)
      [] name = "removeadmin" -> cmd_removeadmin(s, peer_id, user_id, args)
      [] name = "masskick" -> cmd_masskick(s, peer_id, user_id, args)
      [] name = "quiet" -> cmd_quiet(s, peer_id, user_id, args)
      [] name = "delete" -> cmd_delete(s, peer_id, user_id, args)

\* variant of execute_command that trusts the submission and does not check rights
execute_command_unchecked(s, name, peer_id, user_id, args, t) ==
    IF ~has_command(name) THEN {R(s, <<>>)}
    ELSE Handler(name, s, peer_id, user_id, args, t)

\* CommandRegistry.execute_command: the rights check, then the handler
execute_command(s, name, peer_id, user_id, args, t) ==
    IF ~has_command(name) THEN {R(s, <<>>)}
    ELSE IF ~has_rights(s.users, s.conversation_roles, peer_id, user_id, required_role(name))
    THEN {R(s, <<Send("no_rights")>>)}
    ELSE Handler(name, s, peer_id, user_id, args, t)


\* ------------------------------------------------- bot.py: the dispatcher
\* variant of check_cooldown that still rejects at the end of the window
check_cooldown_inclusive(lct, user_id, t) ==
    ~(lct[user_id] # -1 /\ t - lct[user_id] <= command_cooldown)

\* check_cooldown: True when the user is not on cooldown
check_cooldown(lct, user_id, t) ==
    ~(lct[user_id] # -1 /\ t - lct[user_id] < command_cooldown)

\* variant of cooldown_stamp that records the time on every check
cooldown_stamp_always(lct, user_id, t) ==
    [lct EXCEPT ![user_id] = t]

\* ... and last_command_time as the call leaves it
cooldown_stamp(lct, user_id, t) ==
    IF check_cooldown(lct, user_id, t) THEN [lct EXCEPT ![user_id] = t] ELSE lct

cmd_requires_target == {"warn", "unwarn", "kick", "ban", "unban", "mute", "unmute",
                        "addmoder", "addsenmoder", "addadmin", "removerole", "removeadmin"}
cmd_only_id == {"unwarn", "kick", "unban", "unmute"}
cmd_with_params == {"warn", "ban", "mute", "addmoder", "addsenmoder", "addadmin",
                    "removerole", "removeadmin"}

\* the reply branch of handle_command is taken
ReplySubstitutes(command, args, reply_from) ==
    /\ command \in cmd_requires_target
    /\ reply_from # 0
    /\ \/ args = <<>>
       \/ args[1].k \notin {"id", "dur"} /\ args[1].k \notin {"mention", "at"}

\* ... and stops with the "give a reason" hint
ReplyNeedsParams(command, args, reply_from) ==
    /\ ReplySubstitutes(command, args, reply_from)
    /\ command \notin cmd_only_id
    /\ args = <<>>
    /\ command \in cmd_with_params

ReplyArgs(command, args, reply_from) ==
    IF ReplySubstitutes(command, args, reply_from)
    THEN <<IdTok(reply_from)>> \o args
    ELSE args

\* mention markup in the first argument is replaced by the id it resolves to
MentionArgs(command, args) ==
    IF args # <<>> /\ command \in cmd_requires_target /\ args[1].k \in {"mention", "at"}
       /\ extract_user_id_from_mention(<<args[1]>>) # 0
    THEN <<IdTok(extract_user_id_from_mention(<<args[1]>>))>> \o Tail(args)
    ELSE args

Task(command, peer_id, user_id, args) ==
    [command |-> command, peer_id |-> peer_id, user_id |-> user_id, args |-> args]

Step(kind, command, peer_id, user_id, args, reply_from) ==
    [kind |-> kind, command |-> command, peer_id |-> peer_id, user_id |-> user_id,
     args |-> args, reply_from |-> reply_from, submitted_rights |-> FALSE]
NoStep == Step("env", "", NoPeer, 0, <<>>, 0)

\* variant of handle_command that looks the command up before the cooldown gate
handle_command_lookup_first(us1, peer_id, user_id, m) ==
    LET is_owner == is_conversation_owner(peer_id, user_id) IN
    IF quiet_mode /\ ~check_access(us1, conversation_roles, user_id, "moderator", NoPeer)
       /\ ~is_owner
    THEN /\ out' = <<>>
         /\ UNCHANGED <<last_command_time, pending>>
    ELSE IF ~has_command(m.command)
    THEN /\ out' = <<>>
         /\ UNCHANGED <<last_command_time, pending>>
    ELSE IF ~check_cooldown(last_command_time, user_id, now)
    THEN /\ last_command_time' = cooldown_stamp(last_command_time, user_id, now)
         /\ out' = <<Send("spam")>>
         /\ UNCHANGED pending
    ELSE /\ last_command_time' = cooldown_stamp(last_command_time, user_id, now)
         /\ IF ReplyNeedsParams(m.command, m.args, m.reply_from)
            THEN /\ out' = <<Send("need_params")>>
                 /\ UNCHANGED pending
            ELSE /\ Len(pending) < MaxPending
                 /\ out' = <<>>
                 /\ pending' = Append(pending,
                        Task(m.command, peer_id, user_id,
                             MentionArgs(m.command, ReplyArgs(m.command, m.args, m.reply_from))))

\* handle_command, after handle_message stored the sender (us1)
handle_command(us1, peer_id, user_id, m) ==
    LET is_owner == is_conversation_owner(peer_id, user_id) IN
    IF quiet_mode /\ ~check_access(us1, conversation_roles, user_id, "moderator", NoPeer)
       /\ ~is_owner
    THEN /\ out' = <<>>
         /\ UNCHANGED <<last_command_time, pending>>
    ELSE IF ~check_cooldown(last_command_time, user_id, now)
    THEN /\ last_command_time' = cooldown_stamp(last_command_time, user_id, now)
         /\ out' = <<Send("spam")>>
         /\ UNCHANGED pending
    ELSE /\ last_command_time' = cooldown_stamp(last_command_time, user_id, now)
         /\ IF ~has_command(m.command)
            THEN /\ out' = <<>>
                 /\ UNCHANGED pending
            ELSE IF ReplyNeedsParams(m.command, m.args, m.reply_from)
            THEN /\ out' = <<Send("need_params")>>
                 /\ UNCHANGED pending
            ELSE /\ Len(pending) < MaxPending
                 /\ out' = <<>>
                 /\ pending' = Append(pending,
                        Task(m.command, peer_id, user_id,
                             MentionArgs(m.command, ReplyArgs(m.command, m.args, m.reply_from))))

\* the mute check handle_message makes on a message that is not a command
MuteCheck(us1, user_id, t) ==
    is_muted(us1, user_id, t)
        /\ ~check_access(us1, conversation_roles, user_id, "moderator", NoPeer)

handle_text(us1, peer_id, user_id) ==
    /\ out' \in
           {logged \o removed :
                logged \in (IF log_peer_id /\ is_group(peer_id)
                            THEN {<<Log("message", 0, l)>> : l \in LogOutcomes(Store)}
                            ELSE {<<>>}),
                removed \in (IF MuteCheck(us1, user_id, now) /\ get_mute(us1, user_id) - now > 0
                             THEN {delete_message(peer_id, user_id, api).calls
                                       \o <<Send("muted_notice")>> : api \in DeleteApis}
                             ELSE {<<>>})}
    /\ UNCHANGED <<last_command_time, pending>>

\* VkBot.handle_message for message m (command = "" for plain text)
HandleMessage(peer_id, user_id, m) ==
    /\ last' = Step("msg", m.command, peer_id, user_id, <<>>, 0)
    /\ LET us1 == add_user(users, user_id) IN
       /\ users' = us1
       /\ IF m.command # ""
          THEN handle_command(us1, peer_id, user_id, m)
          ELSE handle_text(us1, peer_id, user_id)
    /\ submitted_rights' =
           IF pending' # pending
           THEN Append(submitted_rights,
                       has_rights(users', conversation_roles, peer_id, user_id,
                                  required_role(m.command)))
           ELSE submitted_rights
    /\ UNCHANGED <<warn_rows, bans, conversation_roles, owner, quiet_mode, log_peer_id,
                   command_cooldown, now, warn_history>>
    /\ UNCHANGED worker_vars

RemoveAt(seq, i) == SubSeq(seq, 1, i - 1) \o SubSeq(seq, i + 1, Len(seq))

\* how many calls of database operation `op` on user u the calls `o` hold
CountDb(o, op, u) ==
    Cardinality({i \in 1..Len(o) : o[i].e = "db" /\ o[i].a = op /\ o[i].u = u})

RecordWarns(o) ==
    [u \in Users |->
        [warns |-> warn_history[u].warns + CountDb(o, "add_warn", u),
         unwarns |-> warn_history[u].unwarns + CountDb(o, "remove_warn", u),
         floored |-> warn_history[u].floored
                        + (IF CountDb(o, "remove_warn", u) > 0 /\ get_warns(users, u) = 0
                           THEN 1 ELSE 0)]]

\* a worker of the pool runs one submitted task
ExecuteCommand(i) ==
    /\ i \in 1..Len(pending)
    /\ LET task == pending[i] IN
       /\ \E r \in execute_command(Store, task.command, task.peer_id, task.user_id, task.args, now) :
              /\ users' = r.s.users
              /\ warn_rows' = r.s.warn_rows
              /\ bans' = r.s.bans
              /\ conversation_roles' = r.s.conversation_roles
              /\ quiet_mode' = r.s.quiet_mode
              /\ out' = r.out
              /\ warn_history' = RecordWarns(r.out)
       /\ last' = [Step("exec", task.command, task.peer_id, task.user_id, task.args, 0)
                        EXCEPT !.submitted_rights = submitted_rights[i]]
    /\ pending' = RemoveAt(pending, i)
    /\ submitted_rights' = RemoveAt(submitted_rights, i)
    /\ UNCHANGED <<owner, last_command_time, log_peer_id, command_cooldown, now>>
    /\ UNCHANGED worker_vars

\* execute_command when a storage call raises (database.py catches nothing):
\* in has_rights the exception is raised before the try block and leaves
\* execute_command, ending the task with nothing sent; in the handler it is
\* caught by the except clause, which sends the failure message
execute_command_storage_error(at) ==
    IF at = "has_rights" THEN <<>> ELSE <<Send("error")>>

\* cmd_warn reaches its first storage read, the staff check on the target
cmd_warn_reads_storage(args) ==
    Len(args) >= 2 /\ extract_user_id_from_mention(<<args[1]>>) # 0

\* a worker of the pool runs one submitted task and a storage call raises;
\* the pool keeps the exception in the task's future and goes on
ExecuteCommandStorageError(i) ==
    /\ i \in 1..Len(pending)
    /\ LET task == pending[i] IN
       /\ has_command(task.command)
       /\ \E at \in {"has_rights", "handler"} :
              /\ at = "handler" =>
                     /\ has_rights(users, conversation_roles, task.peer_id, task.user_id,
                                   required_role(task.command))
                     /\ task.command = "warn"
                     /\ cmd_warn_reads_storage(task.args)
              /\ out' = execute_command_storage_error(at)
       /\ last' = [Step("error", task.command, task.peer_id, task.user_id, task.args, 0)
                        EXCEPT !.submitted_rights = submitted_rights[i]]
    /\ pending' = RemoveAt(pending, i)
    /\ submitted_rights' = RemoveAt(submitted_rights, i)
    /\ UNCHANGED <<users, warn_rows, bans, conversation_roles, owner, quiet_mode,
                   last_command_time, log_peer_id, command_cooldown, now, warn_history>>
    /\ UNCHANGED worker_vars

\* ------------------------------------- cmd_warn, statement by statement
\* The executor runs submitted tasks on several threads.  The steps below
\* follow one worker through execute_command and cmd_warn for a task that
\* reaches db.add_warn, with add_warn's statements as separate steps.
NumWorkers == 2
Workers == 1..NumWorkers

\* a worker's own values: its position, the task it runs, and what it has
\* read so far (the counter add_warn returned, the time check_cooldown took,
\* the quiet flag cmd_quiet loaded)
IdleWorker == [pc |-> "idle", task |-> Task("", NoPeer, 0, <<>>), warn_count |-> 0,
               now |-> 0, quiet_mode |-> FALSE]

\* variant of the lock that every thread can take at any time
db_lock_acquire_unguarded(lock, w) == TRUE

\* `with db_lock:` is entered by w when no other thread holds the lock
db_lock_acquire(lock, w) == lock \in {0, w}

\* the task passes the rights check and cmd_warn's checks before add_warn
WarnReachesAddWarn(task) ==
    /\ task.command = "warn"
    /\ has_rights(users, conversation_roles, task.peer_id, task.user_id, required_role("warn"))
    /\ Len(task.args) >= 2
    /\ extract_user_id_from_mention(<<task.args[1]>>) # 0
    /\ ~StaffProtected(Store, task.user_id, extract_user_id_from_mention(<<task.args[1]>>))

WorkerTarget(w) == extract_user_id_from_mention(<<workers[w].task.args[1]>>)

WorkerStep(w, pc) ==
    /\ workers' = [workers EXCEPT ![w].pc = pc]
    /\ last' = NoStep
    /\ out' = <<>>

\* execute_command and cmd_warn up to and including db.add_user(target_id)
WarnStart(w, i) ==
    /\ workers[w].pc = "idle"
    /\ i \in 1..Len(pending)
    /\ WarnReachesAddWarn(pending[i])
    /\ workers' = [workers EXCEPT ![w] = [IdleWorker EXCEPT !.pc = "add_warn",
                                                            !.task = pending[i]]]
    /\ users' = add_user(users, extract_user_id_from_mention(<<pending[i].args[1]>>))
    /\ pending' = RemoveAt(pending, i)
    /\ submitted_rights' = RemoveAt(submitted_rights, i)
    /\ last' = NoStep
    /\ out' = <<>>
    /\ UNCHANGED <<warn_rows, bans, conversation_roles, owner, quiet_mode, last_command_time,
                   log_peer_id, command_cooldown, now, warn_history, db_lock, warn_seen,
                   delete_queue, longpoll>>

\* add_warn: with db_lock:
AddWarnAcquire(w) ==
    /\ workers[w].pc = "add_warn"
    /\ db_lock_acquire(db_lock, w)
    /\ db_lock' = w
    /\ WorkerStep(w, "locked")
    /\ UNCHANGED <<users, warn_rows, bans, conversation_roles, owner, quiet_mode,
                   last_command_time, log_peer_id, command_cooldown, now, pending,
                   warn_history, submitted_rights, warn_seen, delete_queue, longpoll>>

\* add_warn: INSERT INTO warns, UPDATE users SET warns = warns + 1
AddWarnWrite(w) ==
    /\ workers[w].pc = "locked"
    /\ users' = add_warn(Store, WorkerTarget(w)).users
    /\ warn_rows' = add_warn(Store, WorkerTarget(w)).warn_rows
    /\ WorkerStep(w, "written")
    /\ UNCHANGED <<bans, conversation_roles, owner, quiet_mode, last_command_time,
                   log_peer_id, command_cooldown, now, pending, warn_history,
                   submitted_rights, db_lock, warn_seen, delete_queue, longpoll>>

\* add_warn: SELECT warns FROM users, the value add_warn returns
AddWarnRead(w) ==
    /\ workers[w].pc = "written"
    /\ workers' = [workers EXCEPT ![w].pc = "read",
                                  ![w].warn_count = get_warns(users, WorkerTarget(w))]
    /\ warn_seen' = [warn_seen EXCEPT ![WorkerTarget(w)] =
                         Append(@, get_warns(users, WorkerTarget(w)))]
    /\ last' = NoStep
    /\ out' = <<>>
    /\ UNCHANGED <<users, warn_rows, bans, conversation_roles, owner, quiet_mode,
                   last_command_time, log_peer_id, command_cooldown, now, pending,
                   warn_history, submitted_rights, db_lock, delete_queue, longpoll>>

\* add_warn: conn.commit() and the end of the with block
AddWarnRelease(w) ==
    /\ workers[w].pc = "read"
    /\ db_lock' = IF db_lock = w THEN 0 ELSE db_lock
    /\ WorkerStep(w, "reply")
    /\ UNCHANGED <<users, warn_rows, bans, conversation_roles, owner, quiet_mode,
                   last_command_time, log_peer_id, command_cooldown, now, pending,
                   warn_history, submitted_rights, warn_seen, delete_queue, longpoll>>

\* the rest of cmd_warn: the reply, the audit entry and, from the third
\* warning on, the automatic ban
WarnFinish(w) ==
    /\ workers[w].pc = "reply"
    /\ LET task == workers[w].task
           target_id == WorkerTarget(w)
       IN /\ \E l1 \in LogOutcomes(Store), k \in BOOLEAN, l2 \in LogOutcomes(Store) :
                 IF workers[w].warn_count >= WARN_LIMIT
                 THEN /\ bans' = AutoBan(Store, target_id, now).bans
                      /\ out' = <<Db("add_warn", target_id), Send("warned"),
                                  Log("warn", target_id, l1)>>
                                    \o AutoBanEvents(target_id, k, l2)
                 ELSE /\ bans' = bans
                      /\ out' = <<Db("add_warn", target_id), Send("warned"),
                                  Log("warn", target_id, l1)>>
          /\ last' = Step("exec", task.command, task.peer_id, task.user_id, task.args, 0)
    /\ warn_history' = RecordWarns(out')
    /\ workers' = [workers EXCEPT ![w] = IdleWorker]
    /\ UNCHANGED <<users, warn_rows, conversation_roles, owner, quiet_mode,
                   last_command_time, log_peer_id, command_cooldown, now, pending,
                   submitted_rights, db_lock, warn_seen, delete_queue, longpoll>>

\* ------------------------------- check_cooldown, statement by statement
\* handle_message runs on a pool thread for every event.  The steps below
\* follow one thread through handle_command for a registered command that
\* passes the quiet gate: the time is taken and the condition of
\* check_cooldown evaluated in one step, the stamp written in the next.
CooldownCheck(w, peer_id, user_id, m) ==
    /\ workers[w].pc = "idle"
    /\ has_command(m.command) /\ ~ReplyNeedsParams(m.command, m.args, m.reply_from)
    /\ ~quiet_mode
    /\ users' = add_user(users, user_id)
    /\ IF check_cooldown(last_command_time, user_id, now)
       THEN /\ workers' = [workers EXCEPT ![w] =
                    [IdleWorker EXCEPT !.pc = "stamp",
                                       !.task = Task(m.command, peer_id, user_id, m.args),
                                       !.now = now]]
            /\ out' = <<>>
       ELSE /\ workers' = workers
            /\ out' = <<Send("spam")>>
    /\ last' = Step("msg", m.command, peer_id, user_id, <<>>, 0)
    /\ UNCHANGED <<warn_rows, bans, conversation_roles, owner, quiet_mode, last_command_time,
                   log_peer_id, command_cooldown, now, pending, warn_history,
                   submitted_rights, db_lock, warn_seen, delete_queue, longpoll>>

\* self.last_command_time[user_id] = now, and the rest of handle_command:
\* the task is submitted to the executor
CooldownStamp(w) ==
    /\ workers[w].pc = "stamp"
    /\ Len(pending) < MaxPending
    /\ LET task == workers[w].task IN
       /\ last_command_time' = [last_command_time EXCEPT ![task.user_id] = workers[w].now]
       /\ pending' = Append(pending, task)
       /\ submitted_rights' =
              Append(submitted_rights,
                     has_rights(users, conversation_roles, task.peer_id, task.user_id,
                                required_role(task.command)))
       /\ last' = Step("msg", task.command, task.peer_id, task.user_id, <<>>, 0)
    /\ workers' = [workers EXCEPT ![w] = IdleWorker]
    /\ out' = <<>>
    /\ UNCHANGED <<users, warn_rows, bans, conversation_roles, owner, quiet_mode,
                   log_peer_id, command_cooldown, now, warn_history, db_lock, warn_seen,
                   delete_queue, longpoll>>

\* ------------------------------------ cmd_quiet, statement by statement
\* self.bot.quiet_mode = not self.bot.quiet_mode is a load of the attribute
\* followed by a store of the negated value; a worker can be suspended
\* between the two.  QuietLoad is execute_command and cmd_quiet for a task
\* that passes both rights checks, up to and including the load.
QuietLoad(w, i) ==
    /\ workers[w].pc = "idle"
    /\ i \in 1..Len(pending)
    /\ LET task == pending[i] IN
       /\ task.command = "quiet"
       /\ has_rights(users, conversation_roles, task.peer_id, task.user_id,
                     required_role("quiet"))
       /\ \/ check_access(users, conversation_roles, task.user_id, "admin", NoPeer)
          \/ check_access(users, conversation_roles, task.user_id, "creator", NoPeer)
          \/ is_conversation_owner(task.peer_id, task.user_id)
       /\ workers' = [workers EXCEPT ![w] =
               [IdleWorker EXCEPT !.pc = "quiet", !.task = task, !.quiet_mode = quiet_mode]]
    /\ pending' = RemoveAt(pending, i)
    /\ submitted_rights' = RemoveAt(submitted_rights, i)
    /\ last' = NoStep
    /\ out' = <<>>
    /\ UNCHANGED <<users, warn_rows, bans, conversation_roles, owner, quiet_mode,
                   last_command_time, log_peer_id, command_cooldown, now, warn_history,
                   db_lock, warn_seen, delete_queue, longpoll>>

\* the store of the negated value, then the reply and the audit entry
QuietStore(w) ==
    /\ workers[w].pc = "quiet"
    /\ quiet_mode' = ~workers[w].quiet_mode
    /\ out' \in {<<Send(IF workers[w].quiet_mode THEN "quiet_off" ELSE "quiet_on"),
                    Log("quiet", 0, l)>> : l \in LogOutcomes(Store)}
    /\ LET task == workers[w].task IN
       last' = Step("exec", task.command, task.peer_id, task.user_id, task.args, 0)
    /\ workers' = [workers EXCEPT ![w] = IdleWorker]
    /\ UNCHANGED <<users, warn_rows, bans, conversation_roles, owner, last_command_time,
                   log_peer_id, command_cooldown, now, pending, warn_history,
                   submitted_rights, db_lock, warn_seen, delete_queue, longpoll>>

\* a second passes, up to second `limit`
TickTo(limit) ==
    /\ now < limit
    /\ now' = now + 1
    /\ last' = NoStep
    /\ out' = <<>>
    /\ UNCHANGED <<users, warn_rows, bans, conversation_roles, owner, quiet_mode,
                   last_command_time, log_peer_id, command_cooldown, pending, warn_history,
                   submitted_rights>>
    /\ UNCHANGED worker_vars

Tick == TickTo(MaxTime)

\* the platform reports another owner of the conversation (or none)
OwnerChange(peer_id, user_id) ==
    /\ owner[peer_id] # user_id
    /\ owner' = [owner EXCEPT ![peer_id] = user_id]
    /\ last' = NoStep
    /\ out' = <<>>
    /\ UNCHANGED <<users, warn_rows, bans, conversation_roles, quiet_mode,
                   last_command_time, log_peer_id, command_cooldown, now, pending,
                   warn_history, submitted_rights>>
    /\ UNCHANGED worker_vars

\* --------------------------------------------------------------- messages
Msg(command, args, reply_from) == [command |-> command, args |-> args, reply_from |-> reply_from]

TextMessage == Msg("", <<>>, 0)

\* the usual way to write each command against target t
Plain(command, t) ==
    CASE command \in {"warn", "ban"} -> Msg(command, <<IdTok(t), WordTok>>, 0)
      [] command = "mute" -> Msg(command, <<IdTok(t), DurTok(1, "s"), WordTok>>, 0)
      [] command \in {"help", "start", "quiet"} -> Msg(command, <<>>, 0)
      [] OTHER -> Msg(command, <<IdTok(t)>>, 0)

PlainMessages(commands) == {Plain(c, t) : c \in commands, t \in Users}

\* other ways to write them: as a reply, with mention markup, malformed
OddMessages ==
    {Msg("kick", <<>>, t) : t \in Users}
    \cup {Msg("warn", <<WordTok>>, t) : t \in Users}
    \cup {Msg("warn", <<MentionTok(t), WordTok>>, 0) : t \in Users}
    \cup {Msg("ban", <<>>, t) : t \in Users}
    \cup {Msg("mute", <<IdTok(t), WordTok, WordTok>>, 0) : t \in Users}
    \cup {Msg("mute", <<IdTok(t), IdTok(5), WordTok>>, 0) : t \in Users}
    \cup {Msg("masskick", <<IdTok(t), WordTok, IdTok(u)>>, 0) : t \in Users, u \in Users}
    \cup {Msg("kick", <<WordTok>>, 0), Msg("warn", <<>>, 0), Msg("foo", <<>>, 0)}

AllMessages == PlainMessages(Commands) \cup OddMessages \cup {TextMessage}

\* ------------------------------------------------------------------- Init
\* The database file outlives the process: users.role is a column kept "for
\* backward compatibility", so a store opened at start-up may already hold
\* rows with a global role.  At most MaxSeeded such rows are drawn.
MaxSeeded == 1

SeededUsers ==
    {us \in [Users -> {NoUser} \cup {[NewUser EXCEPT !.role = r] : r \in Roles}] :
        Cardinality({u \in Users : us[u].present}) <= MaxSeeded}

\* the state after construction with command_cooldown = cooldown
InitWith(cooldown) ==
    /\ command_cooldown = cooldown
    /\ users \in SeededUsers
    /\ warn_rows = [u \in Users |-> 0]
    /\ bans = {}
    /\ conversation_roles = [u \in Users |-> [p \in Peers |-> NoRole]]
    /\ owner = [p \in Peers |-> 0]
    /\ quiet_mode = FALSE
    /\ last_command_time = [u \in Users |-> -1]
    /\ log_peer_id \in BOOLEAN
    /\ now = 0
    /\ pending = <<>>
    /\ last = NoStep
    /\ out = <<>>
    /\ warn_history = [u \in Users |-> [warns |-> 0, unwarns |-> 0, floored |-> 0]]
    /\ submitted_rights = <<>>
    /\ workers = [w \in Workers |-> IdleWorker]
    /\ db_lock = 0
    /\ warn_seen = [u \in Users |-> <<>>]
    /\ delete_queue = <<>>
    /\ longpoll = [state |-> "listening", errors |-> 0, events |-> <<>>, submitted |-> <<>>]

Init == InitWith(Cooldown)

\* The steps of the system when the messages delivered are drawn from
\* `messages` and arrive in the conversations `peers`.
NextOn(messages, peers) ==
    \/ \E p \in peers, u \in Users, m \in messages : HandleMessage(p, u, m)
    \/ \E i \in 1..MaxPending : ExecuteCommand(i)
    \/ Tick
    \/ \E p \in peers, u \in Users \cup {0} : OwnerChange(p, u)

Next == NextOn(AllMessages, Peers)

Spec == Init /\ [][Next]_vars

\* ------------------------------------------------- restricted input sets
\* The same system with the delivered messages drawn from the commands a
\* property is about; each is a sub-behaviour set of Spec.
NextWarn == NextOn(PlainMessages({"warn", "unwarn"}), {1})
SpecWarn == Init /\ [][NextWarn]_vars

NextMute == NextOn(PlainMessages({"mute", "unmute", "help"}) \cup {TextMessage}, {1})
SpecMute == Init /\ [][NextMute]_vars

NextRoles == NextOn(PlainMessages({"addmoder"}), Peers)
SpecRoles == Init /\ [][NextRoles]_vars

NextOwner == NextOn(PlainMessages({"addmoder", "removerole", "quiet"}), {1})
SpecOwner == Init /\ [][NextOwner]_vars

NextAdmin == NextOn(PlainMessages({"addadmin", "removeadmin"}), {1})
SpecAdmin == Init /\ [][NextAdmin]_vars

NextQuiet == NextOn(PlainMessages({"addadmin", "quiet"}), {1})
SpecQuiet == Init /\ [][NextQuiet]_vars

NextStaff == NextOn(PlainMessages({"kick", "ban", "masskick", "addmoder"}), {1})
SpecStaff == Init /\ [][NextStaff]_vars

NextReban == NextOn(PlainMessages({"warn", "ban"}), {1})
SpecReban == Init /\ [][NextReban]_vars

NextBan == NextOn(PlainMessages({"ban", "unban"}), {1})
SpecBan == Init /\ [][NextBan]_vars

\* commands sent as a reply to a message of user t, with and without text
\* after the command name
ReplyMessages ==
    {Msg(c, a, t) : c \in {"kick", "warn", "addmoder"}, a \in {<<>>, <<WordTok>>}, t \in Users}
NextReply == NextOn(ReplyMessages, {1})
SpecReply == Init /\ [][NextReply]_vars

\* kick commands with the target written in every form the resolver knows,
\* alone and followed or preceded by other words
MentionArgsForms ==
    UNION {{<<IdTok(t)>>, <<MentionTok(t)>>, <<UrlIdTok(t)>>,
            <<UrlNameTok(t, "found")>>, <<AtTok(t, "found")>>,
            <<WordTok, MentionTok(t)>>, <<WordTok, AtTok(t, "found")>>,
            <<AtTok(0, "raises"), MentionTok(t)>>,
            <<UrlNameTok(0, "empty"), AtTok(t, "found")>>,
            <<AtTok(0, "empty"), AtTok(t, "found")>>} : t \in Users}
        \cup {<<WordTok>>, <<UrlNameTok(0, "raises")>>, <<AtTok(0, "empty")>>,
              <<WordTok, WordTok>>}
MentionMessages == {Msg("kick", a, 0) : a \in MentionArgsForms}
NextMention == NextOn(MentionMessages, {1})
SpecMention == Init /\ [][NextMention]_vars

\* mute commands against user 1 with the duration written as digits followed
\* by a unit letter in either case, by another letter or by two letters, as
\* digits alone and as a word without digits
DurationForms ==
    {DurTok(2, unit) : unit \in {"s", "m", "h", "d", "H", "x", "Hm"}}
        \cup {DurTok(0, "s"), IdTok(5), WordTok}
NextDuration ==
    NextOn({Msg("mute", <<IdTok(1), d, WordTok>>, 0) : d \in DurationForms}, {1})
SpecDuration == Init /\ [][NextDuration]_vars

\* warnings given and taken back, and mutes lifted
NextPardon == NextOn(PlainMessages({"warn", "unwarn", "unmute"}), {1})
SpecPardon == Init /\ [][NextPardon]_vars

\* activation of the bot in a conversation, before and after staff is named
NextStart == NextOn(PlainMessages({"start", "addmoder"}), {1})
SpecStart == Init /\ [][NextStart]_vars

\* help commands of every user, with check_cooldown run by the threads of
\* the pool statement by statement
NextCooldownRace ==
    \/ \E w \in Workers, u \in Users : CooldownCheck(w, 1, u, Plain("help", u))
    \/ \E w \in Workers : CooldownStamp(w)
    \/ \E i \in 1..MaxPending : ExecuteCommand(i)
    \/ Tick
SpecCooldownRace == Init /\ [][NextCooldownRace]_vars

\* quiet commands, executed by a worker in one go or statement by statement
NextQuietRace ==
    \/ \E u \in Users : HandleMessage(1, u, Plain("quiet", u))
    \/ \E w \in Workers, i \in 1..MaxPending : QuietLoad(w, i)
    \/ \E w \in Workers : QuietStore(w)
    \/ \E i \in 1..MaxPending : ExecuteCommand(i)
    \/ Tick
    \/ \E u \in Users \cup {0} : OwnerChange(1, u)
SpecQuietRace == Init /\ [][NextQuietRace]_vars

\* ------------------------------------ start_polling and process_events
\* The polling thread alone.  listen() may raise at most MaxErrors times.
MaxErrors == 2

\* the platform has a new message event for the bot
EventDelivered(peer_id, user_id, m) ==
    /\ Len(longpoll.events) < MaxPending
    /\ longpoll' = [longpoll EXCEPT !.events =
                        Append(@, [peer_id |-> peer_id, user_id |-> user_id, m |-> m])]
    /\ UNCHANGED <<users, warn_rows, bans, conversation_roles, owner, quiet_mode,
                   last_command_time, log_peer_id, command_cooldown, now, pending, last, out,
                   warn_history, submitted_rights, workers, db_lock, warn_seen, delete_queue>>

\* variant of ListenerError in which the exception leaves the polling loop
ListenerError_uncaught ==
    /\ longpoll.state = "listening"
    /\ longpoll.errors < MaxErrors
    /\ longpoll' = [longpoll EXCEPT !.state = "terminated", !.errors = @ + 1]
    /\ UNCHANGED <<users, warn_rows, bans, conversation_roles, owner, quiet_mode,
                   last_command_time, log_peer_id, command_cooldown, now, pending, last, out,
                   warn_history, submitted_rights, workers, db_lock, warn_seen, delete_queue>>

\* listen() raises: process_events catches the exception, logs it and
\* starts its sleep of five seconds
ListenerError ==
    /\ longpoll.state = "listening"
    /\ longpoll.errors < MaxErrors
    /\ longpoll' = [longpoll EXCEPT !.state = "backoff", !.errors = @ + 1]
    /\ UNCHANGED <<users, warn_rows, bans, conversation_roles, owner, quiet_mode,
                   last_command_time, log_peer_id, command_cooldown, now, pending, last, out,
                   warn_history, submitted_rights, workers, db_lock, warn_seen, delete_queue>>

\* the sleep ends, process_events returns and the while True loop of
\* start_polling calls it again
BackOffDone ==
    /\ longpoll.state = "backoff"
    /\ longpoll' = [longpoll EXCEPT !.state = "listening"]
    /\ UNCHANGED <<users, warn_rows, bans, conversation_roles, owner, quiet_mode,
                   last_command_time, log_peer_id, command_cooldown, now, pending, last, out,
                   warn_history, submitted_rights, workers, db_lock, warn_seen, delete_queue>>

\* listen() yields the oldest waiting event and process_events hands it to
\* the pool: self.executor.submit(self.handle_message, event)
SubmitEvent ==
    /\ longpoll.state = "listening"
    /\ longpoll.events # <<>>
    /\ longpoll' = [longpoll EXCEPT !.events = Tail(@),
                                    !.submitted = <<Head(longpoll.events)>>]
    /\ UNCHANGED <<users, warn_rows, bans, conversation_roles, owner, quiet_mode,
                   last_command_time, log_peer_id, command_cooldown, now, pending, last, out,
                   warn_history, submitted_rights, workers, db_lock, warn_seen, delete_queue>>

NextIngest ==
    \/ \E u \in Users, m \in PlainMessages({"help"}) \cup {TextMessage} :
           EventDelivered(1, u, m)
    \/ ListenerError
    \/ BackOffDone
    \/ SubmitEvent
\* the sleep returns, and a listener that stays connected yields what waits
SpecIngest ==
    Init /\ [][NextIngest]_vars /\ WF_vars(BackOffDone) /\ WF_vars(SubmitEvent)

\* one turn of VkBot.process_delete_queue: the entries queued now are taken
\* under delete_lock and each is handed to delete_message
ProcessDeleteQueue ==
    /\ delete_queue' = <<>>
    /\ LET RECURSIVE drained(_, _)
           drained(q, api) == IF q = <<>> THEN <<>>
                              ELSE delete_message(Head(q)[1], Head(q)[2], api).calls
                                       \o drained(Tail(q), api)
       IN  out' \in {drained(delete_queue, api) : api \in DeleteApis}
    /\ last' = Step("drain", "", NoPeer, 0, <<>>, 0)
    /\ UNCHANGED <<users, warn_rows, bans, conversation_roles, owner, quiet_mode,
                   last_command_time, log_peer_id, command_cooldown, now, pending,
                   warn_history, submitted_rights, workers, db_lock, warn_seen, longpoll>>

\* mute and delete commands and plain text in a group conversation, plain
\* text in a direct conversation, and the turns of the deletion thread
NextDelete ==
    \/ NextOn(PlainMessages({"mute", "delete"}) \cup {TextMessage}, {1})
    \/ \E u \in Users : HandleMessage(DirectPeer, u, TextMessage)
    \/ ProcessDeleteQueue
SpecDelete == Init /\ [][NextDelete]_vars

\* warn commands against one user, executed by the workers of the pool
\* statement by statement
ConcurrentTarget == 1
NextConcurrent ==
    \/ \E u \in Users, m \in {Plain("warn", ConcurrentTarget)} : HandleMessage(1, u, m)
    \/ \E w \in Workers, i \in 1..MaxPending : WarnStart(w, i)
    \/ \E w \in Workers : AddWarnAcquire(w)
    \/ \E w \in Workers : AddWarnWrite(w)
    \/ \E w \in Workers : AddWarnRead(w)
    \/ \E w \in Workers : AddWarnRelease(w)
    \/ \E w \in Workers : WarnFinish(w)
    \* a task that does not reach add_warn is executed in one step
    \/ \E i \in 1..MaxPending :
           i \in 1..Len(pending) /\ ~WarnReachesAddWarn(pending[i]) /\ ExecuteCommand(i)
    \/ Tick
    \/ \E u \in Users \cup {0} : OwnerChange(1, u)
SpecConcurrent == Init /\ [][NextConcurrent]_vars

\* warn commands, with storage calls that may raise while a task is executed
NextStorageError ==
    \/ NextOn(PlainMessages({"warn"}), {1})
    \/ \E i \in 1..MaxPending : ExecuteCommandStorageError(i)
SpecStorageError == Init /\ [][NextStorageError]_vars

\* a registered command without arguments and an unregistered one, with a
\* cooldown window of LongCooldown seconds
NextCooldown ==
    \/ \E u \in Users, m \in PlainMessages({"help"}) \cup {Msg("foo", <<>>, 0)} :
           HandleMessage(1, u, m)
    \/ \E i \in 1..MaxPending : ExecuteCommand(i)
    \/ TickTo(MaxTimeLong)
    \/ \E u \in Users \cup {0} : OwnerChange(1, u)
SpecCooldown == InitWith(LongCooldown) /\ [][NextCooldown]_vars

\* ================================================================ properties
\* The strict total order over the five roles, lowest first.
RoleOrder == <<"user", "moderator", "senior_moderator", "admin", "creator">>
rank(role) == CHOOSE i \in 1..Len(RoleOrder) : RoleOrder[i] = role

\* what is stored for a user: the global role ('user' without a row) ...
global_role(u) == IF users[u].present THEN users[u].role ELSE "user"
\* ... and the role in force in conversation p: the row for (u, p) if any
effective_role(u, p) ==
    IF conversation_roles[u][p] # NoRole THEN conversation_roles[u][p] ELSE global_role(u)

HasEvent(e, a, u) == \E i \in 1..Len(out) : out[i].e = e /\ out[i].a = a /\ out[i].u = u
HasKick(u) == \E i \in 1..Len(out) : out[i].e = "kick" /\ out[i].u = u
Executed(command) == last.kind = "exec" /\ last.command = command
\* the target the executed command names in its first argument
Target == IF last.args # <<>> THEN last.args[1].v ELSE 0

\* C1: has_rights(conversation, user, required) is true exactly when the user
\* is the conversation's owner or the rank of the user's effective role (the
\* conversation row if one exists, otherwise the global role, 'user' without
\* any row) is at least the rank of the required role; and a command the
\* dispatcher refuses for lack of rights comes from a sender who is neither.
C1_HasRights ==
    /\ \A u \in Users, p \in Peers, required \in Roles :
           has_rights(users, conversation_roles, p, u, required)
               <=> (owner[p] = u \/ rank(effective_role(u, p)) >= rank(required))
    /\ (last.kind = "exec" /\ last.command # "quiet" /\ out = <<Send("no_rights")>>)
           => /\ owner[last.peer_id] # last.user_id
              /\ rank(effective_role(last.user_id, last.peer_id))
                     < rank(required_role(last.command))

\* a sender who is not the owner and has no conversation row passed the
\* senior_moderator requirement of addmoder on the strength of a global role
C1_Witness ==
    /\ Executed("addmoder")
    /\ Target # last.user_id
    /\ HasEvent("db", "set_role", Target)
    /\ owner[last.peer_id] # last.user_id
    /\ conversation_roles[last.user_id][last.peer_id] = NoRole
    /\ global_role(last.user_id) = "senior_moderator"

\* C2 as stated: the effective role is the higher-ranked of the global role
\* and the conversation row, so a row never lowers a user below the global role.
C2_EffectiveIsMax ==
    \A u \in Users, p \in Peers :
        /\ rank(get_role(users, conversation_roles, u, p)) >= rank(global_role(u))
        /\ conversation_roles[u][p] # NoRole
               => rank(get_role(users, conversation_roles, u, p))
                     >= rank(conversation_roles[u][p])

\* C2 amended: the role resolved for a conversation is the conversation row
\* whenever one exists, also when it ranks below the global role; the global
\* role is used only when no row exists.
C2_RowDecides ==
    \A u \in Users, p \in Peers :
        /\ conversation_roles[u][p] # NoRole
               => get_role(users, conversation_roles, u, p) = conversation_roles[u][p]
        /\ conversation_roles[u][p] = NoRole
               => get_role(users, conversation_roles, u, p) = global_role(u)

\* addmoder has just stored a row that ranks below the target's global role
C2_Witness ==
    /\ Executed("addmoder")
    /\ HasEvent("db", "set_role", Target)
    /\ conversation_roles[Target][last.peer_id] = "moderator"
    /\ rank(global_role(Target)) > rank("moderator")

StoreUnchanged == UNCHANGED <<users, warn_rows, bans, conversation_roles, quiet_mode>>

\* C3 as stated: once a conversation row r exists for u in c, the role checks
\* made for u while a command is handled in c are decided by r and not by the
\* global role (here: the staff check on the target of kick), and writing a
\* row for (u, c) leaves u's global role and every check for u in the other
\* conversations as they were.
C3_RowShadowsGlobal ==
    [][/\ \A u \in Users, p \in Peers :
              conversation_roles'[u][p] # conversation_roles[u][p]
                 => /\ global_role(u)' = global_role(u)
                    /\ \A p2 \in Peers \ {p}, required \in Roles :
                           has_rights(users, conversation_roles, p2, u, required)'
                              <=> has_rights(users, conversation_roles, p2, u, required)
       /\ (/\ last'.kind = "exec" /\ last'.command = "kick"
           /\ out' # <<Send("no_rights")>>
           /\ owner[last'.peer_id] # last'.user_id
           /\ rank(effective_role(last'.user_id, last'.peer_id)) < rank("admin")
           /\ conversation_roles[last'.args[1].v][last'.peer_id] # NoRole)
              => (out' = <<Send("staff_protected")>>
                     <=> rank(conversation_roles[last'.args[1].v][last'.peer_id])
                            >= rank("moderator"))
      ]_vars

\* C4 as stated: kick, warn, ban, mute and masskick issued by an invoker below
\* admin never take effect on a target whose effective role in the
\* conversation is at least moderator: nothing is recorded for that target
\* and no removal of that target is attempted.
C4_StaffProtection ==
    [][(/\ last'.kind = "exec"
        /\ last'.command \in {"kick", "warn", "ban", "mute", "masskick"}
        /\ owner[last'.peer_id] # last'.user_id
        /\ rank(effective_role(last'.user_id, last'.peer_id)) < rank("admin"))
           => \A t \in Users :
                 rank(effective_role(t, last'.peer_id)) >= rank("moderator")
                    => /\ \A i \in 1..Len(out') :
                              out'[i].u = t => out'[i].e \notin {"kick", "db"}
                       /\ get_ban(bans, t)' = get_ban(bans, t)
                       /\ get_warns(users, t)' = get_warns(users, t)
                       /\ get_mute(users, t)' = get_mute(users, t)
      ]_vars

\* C5 as stated: a moderator's /ban against another moderator is rejected
\* with the staff-protection message and persists nothing.
C5_BanStaffProtectedReply ==
    [][(/\ last'.kind = "exec" /\ last'.command = "ban"
        /\ effective_role(last'.user_id, last'.peer_id) = "moderator"
        /\ effective_role(last'.args[1].v, last'.peer_id) = "moderator")
           => (out' = <<Send("staff_protected")>> /\ StoreUnchanged)
      ]_vars

\* C5 amended: /ban requires senior_moderator, so a moderator who is not the
\* owner of the conversation is turned away by the dispatcher's rights check,
\* with the insufficient-rights reply, before the handler and its staff
\* check run; nothing is persisted and nothing else is sent, logged or kicked.
C5_BanRejectedByRightsCheck ==
    [][(/\ last'.kind = "exec" /\ last'.command = "ban"
        /\ owner[last'.peer_id] # last'.user_id
        /\ effective_role(last'.user_id, last'.peer_id) = "moderator"
        /\ effective_role(last'.args[1].v, last'.peer_id) = "moderator")
           => (out' = <<Send("no_rights")>> /\ StoreUnchanged)
      ]_vars

\* a moderator who is not the owner has just had /ban on a moderator refused
C5_Witness ==
    /\ Executed("ban")
    /\ out = <<Send("no_rights")>>
    /\ owner[last.peer_id] # last.user_id
    /\ effective_role(last.user_id, last.peer_id) = "moderator"
    /\ effective_role(Target, last.peer_id) = "moderator"
    /\ ~is_banned(bans, Target)

\* C6 as stated: a command of the conversation's current owner is never
\* refused for lack of rank, by the dispatcher or inside a handler, and is
\* never dropped by the quiet-mode gate.
C6_OwnerNeverRefused ==
    /\ (last.kind = "exec" /\ owner[last.peer_id] = last.user_id)
           => out \notin {<<Send("no_rights")>>, <<Send("staff_protected")>>,
                          <<Send("rank_refused")>>}
    /\ (last.kind = "msg" /\ last.command # "" /\ owner[last.peer_id] = last.user_id)
           => (out = <<Send("spam")>> \/ last_command_time[last.user_id] = now)

\* C7 as stated: after N warn and M unwarn commands on one user (M <= N, in
\* any order, starting from zero) the stored count is N - M, and the count is
\* never negative.
C7_CountIsDifference ==
    \A u \in Users :
        /\ get_warns(users, u) >= 0
        /\ warn_history[u].unwarns <= warn_history[u].warns
               => get_warns(users, u) = warn_history[u].warns - warn_history[u].unwarns

\* C7 amended: an unwarn issued while the count is zero removes nothing and
\* is not made up for later, so after N warns and M unwarns the count is
\* N - M + Z, where Z is the number of those unwarns that found the count at
\* zero; it is N - M when no unwarn did, and it is never negative.
C7_CountIsFlooredDifference ==
    \A u \in Users :
        /\ get_warns(users, u) >= 0
        /\ get_warns(users, u)
               = warn_history[u].warns - warn_history[u].unwarns + warn_history[u].floored
        /\ warn_history[u].floored = 0
               => get_warns(users, u) = warn_history[u].warns - warn_history[u].unwarns

\* one unwarn found nothing to remove, then a warn was recorded: N = M = 1
\* and the count is 1
C7_Witness ==
    /\ Executed("warn")
    /\ HasEvent("db", "add_warn", Target)
    /\ warn_history[Target] = [warns |-> 1, unwarns |-> 1, floored |-> 1]
    /\ get_warns(users, Target) = 1

\* C8 as stated: the warning counter never exceeds 3, and the automatic ban
\* fires exactly on the warn that moves the counter to 3 and on no other warn.
C8_CounterCappedAtThree ==
    /\ \A u \in Users : get_warns(users, u) <= 3
    /\ (Executed("warn") /\ HasEvent("db", "add_warn", Target))
           => (HasEvent("db", "ban_user", Target) <=> get_warns(users, Target) = 3)

\* positions in `out` of the calls a property speaks about
Positions(e, a, u) == {i \in 1..Len(out) : out[i].e = e /\ out[i].a = a /\ out[i].u = u}

\* C9: a warn that takes an unprotected target from 2 to 3 warnings writes the
\* ban record first and attempts the kick only afterwards, and makes two
\* distinct audit calls, one 'warn' and one 'ban'; this holds for every
\* outcome of the audit calls, so the kick is attempted whether or not either
\* audit entry could be sent.
C9_AutoBanOrder ==
    (Executed("warn") /\ HasEvent("db", "add_warn", Target) /\ get_warns(users, Target) = 3)
        => /\ is_banned(bans, Target)
           /\ Cardinality(Positions("db", "ban_user", Target)) = 1
           /\ Cardinality(Positions("kick", "", Target)) = 1
           /\ \A i \in Positions("db", "ban_user", Target), j \in Positions("kick", "", Target) :
                  i < j
           /\ Cardinality(Positions("log", "warn", Target)) = 1
           /\ Cardinality(Positions("log", "ban", Target)) = 1

\* the third warning was recorded, neither audit entry could be sent although
\* a log conversation is configured, and the removal was attempted
C9_Witness ==
    /\ Executed("warn")
    /\ get_warns(users, Target) = 3
    /\ warn_history[Target].warns = 3
    /\ log_peer_id
    /\ \A i \in 1..Len(out) : out[i].e = "log" => ~out[i].ok
    /\ HasKick(Target)
    /\ is_banned(bans, Target)

\* C10 as stated: while a user's mute_until is in the future and the user is
\* not staff, every message arriving from the user, plain text or command,
\* has a deletion attempted and is answered with the remaining-time notice;
\* a user who holds at least moderator is never subjected to the mute check.
C10_MutedMessagesDeleted ==
    /\ (/\ last.kind = "msg"
        /\ is_muted(users, last.user_id, now)
        /\ rank(effective_role(last.user_id, last.peer_id)) < rank("moderator"))
           => /\ \E i \in 1..Len(out) : out[i].e = "delete" /\ out[i].u = last.user_id
              /\ HasEvent("send", "muted_notice", 0)
    /\ (/\ last.kind = "msg"
        /\ rank(effective_role(last.user_id, last.peer_id)) >= rank("moderator"))
           => \A i \in 1..Len(out) : out[i].e # "delete"

\* C11: mute round trip.  set_mute on an existing user followed by get_mute
\* gives a timestamp of at least now + duration; after remove_mute, get_mute
\* gives 0; and the mute check deletes a message only while the sender's
\* mute_until is in the future, so none is deleted once the mute is removed.
C11_MuteRoundTrip ==
    /\ \A u \in Users :
           users[u].present
              => /\ get_mute(set_mute(users, u, 1, now), u) >= now + 1
                 /\ get_mute(remove_mute(set_mute(users, u, 1, now), u), u) = 0
    /\ (Executed("mute") /\ HasEvent("db", "set_mute", Target))
           => get_mute(users, Target) >= now + parse_time(last.args[2])
    /\ (Executed("unmute") /\ HasEvent("db", "remove_mute", Target))
           => get_mute(users, Target) = 0
    /\ (last.kind = "msg" /\ get_mute(users, last.user_id) <= now)
           => \A i \in 1..Len(out) : out[i].e # "delete"

\* /mute has just run at time 1 and the stored end of the mute is time 2
C11_Witness ==
    /\ Executed("mute")
    /\ HasEvent("db", "set_mute", Target)
    /\ now = 1
    /\ get_mute(users, Target) = 2

BannedUsers(bs) == {r.user_id : r \in bs}
BanRowsOf(bs, u) == {r \in bs : r.user_id = u}

\* C12: there is at most one ban record per user in every reachable state;
\* banning a user who is already banned, by /ban or by the automatic ban,
\* replaces the record's reason and timestamp instead of adding a record, so
\* a ban followed by a ban leaves the same banned users as a single ban.
C12_BanUpsert ==
    /\ \A u \in Users : Cardinality(BanRowsOf(bans, u)) <= 1
    /\ \A u \in Users, r1 \in {"manual", "auto"}, r2 \in {"manual", "auto"} :
           LET once == ban_user(bans, u, r1, now)
               twice == ban_user(once, u, r2, now + 1)
           IN /\ BannedUsers(twice) = BannedUsers(once)
              /\ BanRowsOf(twice, u) = {BanRow(u, r2, now + 1)}
              /\ \A v \in Users \ {u} : BanRowsOf(twice, v) = BanRowsOf(bans, v)
    /\ (Executed("ban") /\ HasEvent("db", "ban_user", Target))
           => BanRowsOf(bans, Target) = {BanRow(Target, "manual", now)}
    /\ (Executed("warn") /\ HasEvent("db", "ban_user", Target))
           => BanRowsOf(bans, Target) = {BanRow(Target, "auto", now)}

\* /ban has just run on a user whom a third warning had banned automatically
\* (no command of this specification lifts a ban): the one record left is
\* the manual one
C12_Witness ==
    /\ Executed("ban")
    /\ HasEvent("db", "ban_user", Target)
    /\ warn_history[Target].warns >= 3
    /\ BanRowsOf(bans, Target) = {BanRow(Target, "manual", now)}

\* C13: unban of a user without a ban record changes no stored state, makes
\* no 'unban' audit call and answers with the 'was not banned' reply; unban
\* of a banned user removes the record, after which get_ban finds nothing,
\* and leaves the other users' records alone.
C13_Unban ==
    [][(/\ last'.kind = "exec" /\ last'.command = "unban"
        /\ out' # <<Send("no_rights")>>)
           => LET t == last'.args[1].v IN
              IF ~is_banned(bans, t)
              THEN out' = <<Send("not_banned")>> /\ StoreUnchanged
              ELSE /\ get_ban(bans', t) = NoBan
                   /\ bans' = bans \ BanRowsOf(bans, t)
                   /\ out'[1] = Db("unban_user", t)
                   /\ out'[2] = Send("unbanned")
                   /\ UNCHANGED <<users, warn_rows, conversation_roles, quiet_mode>>
      ]_vars

\* /unban has just been answered 'was not banned' for a user without a record
C13_Witness ==
    /\ Executed("unban")
    /\ out = <<Send("not_banned")>>
    /\ ~is_banned(bans, Target)
    /\ bans # {}

\* a step that handled a command message which the quiet gate let through
CommandArrived == last'.kind = "msg" /\ last'.command # "" /\ ~quiet_mode

\* C14: once a command of user u is accepted at time t0, every command of u
\* arriving before t0 + command_cooldown is rejected with the spam notice and
\* not dispatched, and the rejection leaves u's timestamp at t0; a command
\* arriving at or after t0 + command_cooldown is accepted and stamps the time.
C14_CooldownGate ==
    [][CommandArrived
          => LET u == last'.user_id
                 t0 == last_command_time[u]
             IN IF t0 # -1 /\ now < t0 + command_cooldown
                THEN /\ out' = <<Send("spam")>>
                     /\ pending' = pending
                     /\ last_command_time'[u] = t0
                ELSE /\ out' # <<Send("spam")>>
                     /\ last_command_time'[u] = now
                     /\ has_command(last'.command) => pending' # pending
      ]_vars

\* with a window of two seconds, a command has just been accepted at second 2
C14_Witness ==
    /\ last.kind = "msg" /\ last.command = "help"
    /\ command_cooldown = 2
    /\ now = 2
    /\ out = <<>>
    /\ last_command_time[last.user_id] = 2
    /\ pending # <<>>

\* C15 as stated: check_cooldown records the current time on every check, a
\* rejecting one included, so a rejected attempt restarts the window.
C15_StampOnEveryCheck ==
    [][CommandArrived => last_command_time'[last'.user_id] = now]_vars

\* C15 amended: check_cooldown records the current time only when it accepts;
\* a rejecting check leaves last_command_time as it was, so a rejected attempt
\* does not restart the window and a command arriving command_cooldown seconds
\* after the last accepted one passes.
C15_StampOnAcceptOnly ==
    [][CommandArrived
          => IF out' = <<Send("spam")>>
             THEN /\ UNCHANGED last_command_time
                  /\ check_cooldown(last_command_time', last'.user_id,
                                    last_command_time[last'.user_id] + command_cooldown)
             ELSE last_command_time'
                     = [last_command_time EXCEPT ![last'.user_id] = now]
      ]_vars

\* a command was rejected at second 1 and the timestamp still reads 0, so a
\* command at second 2 would pass a window of two seconds
C15_Witness ==
    /\ last.kind = "msg"
    /\ out = <<Send("spam")>>
    /\ command_cooldown = 2
    /\ now = 1
    /\ last_command_time[last.user_id] = 0
    /\ check_cooldown(last_command_time, last.user_id, 2)

\* C16 as stated: while quiet mode is on, a command is processed if and only
\* if its invoker is staff in the conversation where it was sent (effective
\* role there at least moderator) or is that conversation's owner; a command
\* of anyone else is dropped with no reply, no dispatch and no change to the
\* cooldown map.
C16_QuietGate ==
    [][(last'.kind = "msg" /\ last'.command # "" /\ quiet_mode)
          => LET u == last'.user_id
                 p == last'.peer_id
             IN IF rank(effective_role(u, p)) >= rank("moderator") \/ owner[p] = u
                THEN out' = <<Send("spam")>> \/ last_command_time'[u] = now
                ELSE /\ out' = <<>>
                     /\ UNCHANGED <<pending, last_command_time>>
      ]_vars

\* C17: a /quiet that a worker executes for a user whose effective role in
\* the conversation is admin or creator, or who owns the conversation, flips
\* quiet_mode once and attempts a 'quiet' audit entry; executed for anyone
\* else it leaves quiet_mode as it was.
C17_QuietFlips ==
    [][(last'.kind = "exec" /\ last'.command = "quiet")
          => LET u == last'.user_id
                 p == last'.peer_id
             IN IF rank(effective_role(u, p)) >= rank("admin") \/ owner[p] = u
                THEN /\ quiet_mode' = ~quiet_mode
                     /\ \E i \in 1..Len(out') : out'[i].e = "log" /\ out'[i].a = "quiet"
                ELSE quiet_mode' = quiet_mode
      ]_vars

\* a message carrying a command name that is not registered is handled
UnknownArrived == last'.kind = "msg" /\ last'.command # "" /\ ~has_command(last'.command)
OnCooldown(u) ==
    last_command_time[u] # -1 /\ now - last_command_time[u] < command_cooldown

\* C18 as stated: a message whose command name is not registered causes no
\* reply of any kind and no handler call.
C18_UnknownSilent ==
    [][UnknownArrived => (out' = <<>> /\ pending' = pending)]_vars

\* C18: an unregistered command never reaches a handler; it is ignored
\* without a reply when it passes the cooldown gate (and is then recorded as
\* the sender's last command), and is answered with the spam notice when it
\* arrives inside the sender's cooldown window.
C18_UnknownAfterGates ==
    [][(UnknownArrived /\ ~quiet_mode)
          => LET u == last'.user_id IN
             /\ pending' = pending
             /\ IF OnCooldown(u)
                THEN out' = <<Send("spam")>> /\ UNCHANGED last_command_time
                ELSE out' = <<>> /\ last_command_time'[u] = now
      ]_vars

C18_Witness ==
    /\ last.kind = "msg" /\ ~has_command(last.command) /\ last.command # ""
    /\ out = <<Send("spam")>>
    /\ pending = <<>>

\* has_rights for the sender of the step being taken, on the state the step starts from
SenderHasRights ==
    LET u == last'.user_id
        p == last'.peer_id
    IN owner[p] = u \/ rank(effective_role(u, p)) >= rank(required_role(last'.command))

\* C19: when a worker executes a submitted command and has_rights does not
\* hold for its sender at that moment, the handler is not called: the only
\* effect is the insufficient-rights reply and nothing is stored. This covers
\* a sender who had the rights when the command was submitted.
C19_RightsAtExecution ==
    [][(last'.kind = "exec" /\ has_command(last'.command) /\ ~SenderHasRights)
          => (out' = <<Send("no_rights")>> /\ StoreUnchanged)
      ]_vars

\* an addmoder submitted by the owner is executed after the ownership passed
\* to someone else and is refused
C19_Witness ==
    /\ Executed("addmoder")
    /\ last.submitted_rights
    /\ owner[last.peer_id] # last.user_id
    /\ rank(effective_role(last.user_id, last.peer_id)) < rank("senior_moderator")
    /\ out = <<Send("no_rights")>>

\* C20: whenever a storage call raises while a worker executes a submitted
\* command, in the rights check or in the handler, the failure message is
\* sent to the conversation.
C20_ErrorsAnswered ==
    [][last'.kind = "error" => (\E i \in 1..Len(out') : out'[i] = Send("error"))]_vars

\* the step being taken executes `command`, which names its target first
Executing(command) ==
    last'.kind = "exec" /\ last'.command = command /\ last'.args # <<>>

\* C21: an executed removerole changes a role row only when the rank of the
\* invoker's effective role in the conversation is strictly greater than the
\* rank of the target's; with equal ranks or a higher-ranked target no role
\* row changes and the removal is not announced.
C21_RemoveroleStrictRank ==
    [][Executing("removerole")
          => LET u == last'.user_id
                 p == last'.peer_id
                 t == last'.args[1].v
             IN /\ conversation_roles' # conversation_roles
                       => rank(effective_role(u, p)) > rank(effective_role(t, p))
                /\ rank(effective_role(t, p)) >= rank(effective_role(u, p))
                       => /\ UNCHANGED conversation_roles
                          /\ \A i \in 1..Len(out') : out'[i] # Send("role_removed")
      ]_vars

\* a removerole that went through: the target's row was rewritten
C21_Witness ==
    /\ Executed("removerole")
    /\ HasEvent("send", "role_removed", 0)
    /\ Target # last.user_id
    /\ conversation_roles[Target][last.peer_id] = "user"

\* C22: an executed removeadmin changes a role row only when the target's
\* role in the conversation is exactly admin; for a target holding any other
\* role, creator included, no role row changes and no removal is announced.
C22_RemoveadminExactlyAdmin ==
    [][Executing("removeadmin")
          => LET p == last'.peer_id
                 t == last'.args[1].v
             IN /\ conversation_roles' # conversation_roles => effective_role(t, p) = "admin"
                /\ effective_role(t, p) # "admin"
                       => /\ UNCHANGED conversation_roles
                          /\ \A i \in 1..Len(out') : out'[i] # Send("admin_removed")
      ]_vars

\* a removeadmin that went through, on an admin made by addadmin
C22_Witness ==
    /\ Executed("removeadmin")
    /\ HasEvent("send", "admin_removed", 0)
    /\ global_role(Target) = "user"
    /\ conversation_roles[Target][last.peer_id] = "user"

\* a removerole or removeadmin has just been executed and announced its success
RoleJustRemoved ==
    /\ last.kind = "exec"
    /\ \/ last.command = "removerole" /\ HasEvent("send", "role_removed", 0)
       \/ last.command = "removeadmin" /\ HasEvent("send", "admin_removed", 0)

\* C23 as stated: after a successful removerole or removeadmin the target has
\* no row left for the conversation and the target's effective role there is
\* the target's global role.
C23_RemovedFallsBackToGlobal ==
    RoleJustRemoved
        => /\ conversation_roles[Target][last.peer_id] = NoRole
           /\ effective_role(Target, last.peer_id) = global_role(Target)

\* C24 as stated: an executed masskick attempts at most MASSKICK_LIMIT
\* removals, each of one of the first MASSKICK_LIMIT numeric identifiers of
\* its arguments; it attempts no removal of a target whose effective role is
\* at least moderator when the invoker's is below admin; and the count it
\* reports is the number of removals that succeeded.
C24_MassKick ==
    [][Executing("masskick")
          => LET u == last'.user_id
                 p == last'.peer_id
                 ids == MassKickIds(last'.args)
                 first == {ids[i] : i \in 1..(IF Len(ids) < MASSKICK_LIMIT THEN Len(ids)
                                                ELSE MASSKICK_LIMIT)}
                 kicks == {i \in 1..Len(out') : out'[i].e = "kick"}
             IN /\ Cardinality(kicks) <= MASSKICK_LIMIT
                /\ \A i \in kicks : out'[i].u \in first
                /\ rank(effective_role(u, p)) < rank("admin")
                       => \A i \in kicks :
                              rank(effective_role(out'[i].u, p)) < rank("moderator")
                /\ \A i \in 1..Len(out') :
                       (out'[i].e = "send" /\ out'[i].a = "masskick_done")
                           => out'[i].u = Cardinality({j \in kicks : out'[j].ok})
      ]_vars

NotLog(e) == e.e # "log"
AuditFailed == \E i \in 1..Len(out) : out[i].e = "log" /\ ~out[i].ok

\* C25: whatever becomes of the audit entries of an executed command (logging
\* not configured, or the entry not delivered), the state stored by the
\* command and everything it does besides the audit entries, the reply to the
\* conversation included, are what an execution with logging configured and
\* every audit entry delivered produces.
C25_AuditFailureHarmless ==
    [][last'.kind = "exec"
          => LET outcomes == execute_command([Store EXCEPT !.log_peer_id = TRUE],
                                             last'.command, last'.peer_id, last'.user_id,
                                             last'.args, now)
                 delivered == {r \in outcomes :
                                  \A i \in 1..Len(r.out) : r.out[i].e = "log" => r.out[i].ok}
             IN \E r \in delivered :
                    /\ users' = r.s.users
                    /\ warn_rows' = r.s.warn_rows
                    /\ bans' = r.s.bans
                    /\ conversation_roles' = r.s.conversation_roles
                    /\ quiet_mode' = r.s.quiet_mode
                    /\ SelectSeq(out', NotLog) = SelectSeq(r.out, NotLog)
      ]_vars

\* a ban whose audit entry was not delivered: banned, answered, removal attempted
C25_Witness ==
    /\ Executed("ban")
    /\ AuditFailed
    /\ is_banned(bans, Target)
    /\ HasEvent("send", "banned", 0)
    /\ HasKick(Target)

\* message m is a reply, names a command of the allow-list and carries no
\* explicit target
ReplyWithoutTarget(m) ==
    /\ m.command \in cmd_requires_target
    /\ m.reply_from # 0
    /\ m.args = <<>> \/ m.args[1].k \notin {"id", "dur", "mention", "at"}

\* C26 as stated: when a reply without explicit target, naming a command of
\* the allow-list, passes the quiet and cooldown gates, the task submitted
\* for the handler carries the reply author's identifier as its leading
\* argument, followed by the arguments as they were typed.
C26_ReplySubstitution ==
    [][\A u \in Users, m \in ReplyMessages :
          (/\ ReplyWithoutTarget(m)
           /\ HandleMessage(1, u, m)
           /\ ~quiet_mode
           /\ ~OnCooldown(u))
              => pending' = Append(pending, Task(m.command, 1, u, <<IdTok(m.reply_from)>> \o m.args))
      ]_vars

\* what one word resolves to on its own: 0 when it matches no pattern or its
\* profile lookup finds nothing or raises
WordResolves(tok) ==
    CASE tok.k \in {"id", "mention", "url_id"} -> tok.v
      [] tok.k \in {"url_name", "at"} /\ tok.unit = "found" -> tok.v
      [] OTHER -> 0

\* the search over the whole text: the first mention markup, else the first @handle
TextResolves(args) ==
    LET ms == {i \in 1..Len(args) : args[i].k = "mention"}
        hs == {i \in 1..Len(args) : args[i].k = "at"}
        least(S) == CHOOSE i \in S : \A j \in S : i <= j
    IN IF ms # {} THEN args[least(ms)].v
       ELSE IF hs # {} THEN WordResolves(args[least(hs)])
       ELSE 0

\* the kick handler ran on the step being taken and resolved its arguments to e
KickResolvedTo(e) ==
    IF e = 0 THEN out' = <<Send("no_user")>>
    ELSE \/ out' = <<Send("staff_protected")>>
         \/ out'[1].e = "kick" /\ out'[1].u = e

KickHandlerRuns == Executing("kick") /\ SenderHasRights

\* C27 as stated: the first word alone decides what the arguments resolve
\* to, and when it matches no pattern or its lookup fails the result is
\* 'not found'.
C27_FirstWordDecides ==
    [][KickHandlerRuns => KickResolvedTo(WordResolves(last'.args[1]))]_vars

\* C27: the first word decides when it resolves; when it matches no pattern
\* or its lookup fails and further words follow, the whole text is searched
\* for mention markup and then for an @handle, and only when that finds
\* nothing is the result 'not found'.  A lookup that raises counts as one
\* that finds nothing.  The dispatcher replaces a leading mention or @handle
\* that resolves by the id it resolves to.
C27_FirstWordThenWholeText ==
    [][/\ KickHandlerRuns
          => LET first == WordResolves(last'.args[1])
             IN KickResolvedTo(IF first # 0 THEN first
                               ELSE IF Len(last'.args) > 1 THEN TextResolves(last'.args)
                               ELSE 0)
       /\ \A u \in Users, m \in MentionMessages :
              (m.args[1].k \in {"mention", "at"} /\ HandleMessage(1, u, m)
                  /\ pending' # pending)
                 => pending' = Append(pending,
                        Task("kick", 1, u,
                             IF WordResolves(m.args[1]) # 0
                             THEN <<IdTok(WordResolves(m.args[1]))>> \o Tail(m.args)
                             ELSE m.args))
      ]_vars

\* a kick whose first word is plain text and whose second is mention markup
\* went for the mentioned user
C27_Witness ==
    /\ Executed("kick")
    /\ Len(last.args) = 2
    /\ last.args[1].k = "word"
    /\ last.args[2].k = "mention"
    /\ HasKick(last.args[2].v)

\* the workers whose add_warn has written its increment for user u and whose
\* warn command has not finished yet
WrittenInFlight(u) ==
    {w \in Workers : workers[w].pc \in {"written", "read", "reply"} /\ WorkerTarget(w) = u}

\* C28: with warn commands on one user executed by several workers at once,
\* the stored counter is at every moment the number of add_warn calls that
\* have written (those of finished commands and those in flight), so it ends
\* as the initial 0 plus the number of warns, and no two calls of add_warn
\* return the same count.
C28_NoLostWarn ==
    \A u \in Users :
        /\ get_warns(users, u) = warn_history[u].warns + Cardinality(WrittenInFlight(u))
        /\ \A i, j \in 1..Len(warn_seen[u]) : i # j => warn_seen[u][i] # warn_seen[u][j]
        /\ (\A w \in Workers : workers[w].pc = "idle")
               => Len(warn_seen[u]) = get_warns(users, u)

\* a warn finishes with count 2 while the worker that read count 1 for the
\* same user has not replied yet
C28_Witness ==
    /\ Executed("warn")
    /\ HasEvent("send", "warned", 0)
    /\ warn_seen[ConcurrentTarget] = <<1, 2>>
    /\ \E w \in Workers :
           /\ workers[w].pc = "reply"
           /\ WorkerTarget(w) = ConcurrentTarget
           /\ workers[w].warn_count = 1

IsDelete(e) == e.e = "delete"
DeleteCalls == SelectSeq(out, IsDelete)

\* C29: the deletion calls of a step in a group conversation are the call
\* shapes in their fixed order, each made only after all earlier ones failed
\* and none after a success, and cmd_delete reports success exactly when one
\* of them succeeded; in a direct conversation there is exactly one call.
C29_DeleteAttempts ==
    LET d == DeleteCalls IN
    d # <<>> =>
        IF is_group(last.peer_id)
        THEN /\ Len(d) <= Len(GroupDeleteShapes)
             /\ \A i \in 1..Len(d) : d[i].a = GroupDeleteShapes[i]
             /\ \A i \in 1..(Len(d) - 1) : ~d[i].ok
             /\ Len(d) < Len(GroupDeleteShapes) => d[Len(d)].ok
             /\ Executed("delete")
                    => /\ HasEvent("send", "deleted", 0) <=> \E i \in 1..Len(d) : d[i].ok
                       /\ HasEvent("send", "delete_failed", 0) <=> \A i \in 1..Len(d) : ~d[i].ok
        ELSE Len(d) = 1 /\ d[1].a = DirectDeleteShape

\* a /delete in a group conversation that succeeded at the third call shape
C29_Witness ==
    /\ Executed("delete")
    /\ is_group(last.peer_id)
    /\ Len(DeleteCalls) = 3
    /\ DeleteCalls[3].ok
    /\ HasEvent("send", "deleted", 0)

\* C30: a message that has to be removed, such as the message of a muted
\* user, is not deleted inside the message handler: after the handler has
\* answered a muted sender no delete call was made in that step and the
\* message waits on the pending-deletion queue for the next drain.
MutedSenderAnswered ==
    /\ last.kind = "msg" /\ last.command = ""
    /\ HasEvent("send", "muted_notice", 0)
C30_RemovalQueued ==
    MutedSenderAnswered => DeleteCalls = <<>> /\ delete_queue # <<>>

\* the duration word is digits immediately followed by exactly one unit
\* letter: as the letters s, m, h, d, and with their capitals allowed
UnitSeconds(unit) ==
    CASE unit \in {"s", "S"} -> 1
      [] unit \in {"m", "M"} -> 60
      [] unit \in {"h", "H"} -> 3600
      [] unit \in {"d", "D"} -> 86400
      [] OTHER -> 0
WellFormed(tok) == tok.k = "dur" /\ tok.unit \in {"s", "m", "h", "d"}
WellFormedAnyCase(tok) == tok.k = "dur" /\ UnitSeconds(tok.unit) > 0
\* the mute handler being executed gets as far as parsing the duration
MuteParsesDuration ==
    /\ Executing("mute") /\ Len(last'.args) >= 3
    /\ \E i \in 1..Len(out') :
           out'[i] = Send("bad_time") \/ out'[i] = Db("set_mute", last'.args[1].v)
\* what the claim says of an executed mute whose duration word is `accepted`
MuteFollowsDuration(accepted) ==
    LET d == last'.args[2]
        t == last'.args[1].v
    IN IF accepted
       THEN /\ get_mute(users', t) = now + d.v * UnitSeconds(d.unit)
            /\ \E i \in 1..Len(out') : out'[i] = Db("set_mute", t)
       ELSE /\ \A u \in Users : get_mute(users', u) = get_mute(users, u)
            /\ \A i \in 1..Len(out') : out'[i].e # "db"
            /\ \E i \in 1..Len(out') : out'[i] = Send("bad_time")

C33_GrantNeverLowers ==
    [][\A u \in Users, t \in Users, p \in Peers :
           (/\ \E c \in {"addmoder", "addsenmoder", "addadmin"} : Executing(c)
            /\ last'.user_id = u /\ last'.peer_id = p /\ last'.args[1].v = t)
              => /\ rank(effective_role(t, p))' >= rank(effective_role(t, p))
                 /\ rank(effective_role(t, p)) >= rank(effective_role(u, p))
                       => conversation_roles'[t][p] = conversation_roles[t][p]]_vars

\* C36: in every reachable state the warning counter stored in a user's row
\* equals the number of rows the warns table holds for that user.
C36_CounterMatchesRows ==
    \A u \in Users : get_warns(users, u) = warn_rows[u]
C36_Witness ==
    /\ Executed("unwarn") /\ HasEvent("db", "remove_warn", Target)
    /\ warn_rows[Target] = 1 /\ get_warns(users, Target) = 1
    /\ warn_history[Target].warns = 2

\* C37: an executed unwarn or unmute leaves the bans table exactly as it
\* was: a user banned at the third warning is still banned, with the same
\* record, after warnings are taken back or a mute is lifted.
C37_PardonKeepsBans ==
    [][(Executing("unwarn") \/ Executing("unmute")) => bans' = bans]_vars
C37_Witness ==
    /\ Executed("unwarn") /\ HasEvent("db", "remove_warn", Target)
    /\ warn_history[Target].warns >= WARN_LIMIT
    /\ get_warns(users, Target) < WARN_LIMIT
    /\ is_banned(bans, Target)

\* C39: an executed unmute that names a user answers that the mute was
\* lifted, and writes the 'unmute' audit entry, only when the target's
\* mute_until was in the future before the command; for a target who was not
\* muted it answers that the user was not muted and attempts no audit entry.
C39_UnmuteOnlyWhenMuted ==
    [][(/\ Executing("unmute") /\ last'.args[1].k = "id"
        /\ out' # <<Send("no_rights")>>)
          => LET t == last'.args[1].v IN
             IF get_mute(users, t) > now
             THEN /\ \E i \in 1..Len(out') : out'[i] = Send("unmuted")
                  /\ \E i \in 1..Len(out') : out'[i].e = "log" /\ out'[i].a = "unmute"
             ELSE /\ \E i \in 1..Len(out') : out'[i] = Send("not_muted")
                  /\ \A i \in 1..Len(out') : out'[i].e # "log"]_vars

\* C38: an executed start changes a role row only to give the invoker the
\* creator role in the conversation of the command, only when the invoker is
\* that conversation's owner, and only when no row of the conversation held
\* a staff role before.
C38_StartOnlyOwnerOnce ==
    [][(last'.kind = "exec" /\ last'.command = "start")
          => \A t \in Users, q \in Peers :
                 conversation_roles'[t][q] # conversation_roles[t][q]
                    => /\ t = last'.user_id /\ q = last'.peer_id
                       /\ conversation_roles'[t][q] = "creator"
                       /\ owner[q] = t
                       /\ \A x \in Users : conversation_roles[x][q] \in {NoRole, "user"}]_vars
C38_Witness ==
    /\ Executed("start") /\ HasEvent("db", "set_role", last.user_id)
    /\ owner[last.peer_id] = last.user_id
    /\ conversation_roles[last.user_id][last.peer_id] = "creator"

\* C34: with handle_message running on several threads, every time a thread
\* records a command of user u as accepted, the time it accepts at is at
\* least command_cooldown seconds after the acceptance recorded for u before
\* it (time never runs backwards, so this is the same as any two acceptances
\* of u being that far apart).
C34_AcceptancesSpaced ==
    [][\A w \in Workers :
           CooldownStamp(w)
               => LET u == workers[w].task.user_id IN
                  \/ last_command_time[u] = -1
                  \/ workers[w].now - last_command_time[u] >= command_cooldown]_vars

\* C35: with quiet handlers running on several workers no toggle is lost:
\* every authorized quiet command that completes leaves the flag negated, so
\* that after k completions the flag is the initial value for even k and its
\* negation for odd k.
C35_NoToggleLost ==
    [][\A w \in Workers : QuietStore(w) => quiet_mode' # quiet_mode]_vars

\* C31: the polling loop never ends on an exception of the listener: it is
\* always listening or in its back-off sleep, a back-off always leads to
\* listening again, and every event that waits for the bot, whether it came
\* before or after a failure, is eventually handed to the worker pool.
C31_ListenerRecovers ==
    /\ [](longpoll.state \in {"listening", "backoff"})
    /\ (longpoll.state = "backoff") ~> (longpoll.state = "listening")
    /\ \A u \in Users, m \in PlainMessages({"help"}) \cup {TextMessage} :
           LET e == [peer_id |-> 1, user_id |-> u, m |-> m] IN
           (\E i \in 1..Len(longpoll.events) : longpoll.events[i] = e)
               ~> (longpoll.submitted = <<e>>)
C31_Witness ==
    /\ longpoll.errors = MaxErrors
    /\ longpoll.state = "listening"
    /\ longpoll.events = <<>>
    /\ longpoll.submitted # <<>>
====
